---- MODULE Spec2Model ----
(***************************************************************************)
(* Resilience and consistency layer of the Shopify <-> Biller integration: *)
(* the webhook dedup gate (WebhookDedupeStore), the circuit breaker        *)
(* (CircuitBreakerV2), the local result store (ComprobanteStore) and the   *)
(* webhook / manual-invoicing handlers of server.js.                       *)
(*                                                                         *)
(* Time is a discrete clock `now` (Date.now()), advanced by Tick.          *)
(***************************************************************************)
EXTENDS Integers, Sequences, FiniteSets, TLC

\* ---------------------------------------------------------------------
\* Bounds of the model
\* ---------------------------------------------------------------------
MaxTime == 3
MaxCalls == 2
MaxThreshold == 2
MaxSuccessThreshold == 1
MaxEmitidos == 2
MaxRejections == 1
MaxExecuting == 2
MaxRecorded == 3
MaxLogged == 3
MaxLocal == 2
MaxRuns == 2
MaxDays == 2
MaxJobs == 2
MaxPdfTime == 1

\* Scaled configuration of the webhook queue and of the retry policy
QueueConcurrency == 1
MaxQueueSize == 1
MaxAttempts == 2

\* Scaled durations (clock ticks)
WindowMs == 2
CircuitTimeout == 2
WindowDuration == 2
DefaultTtl == 2
DayLength == 2
RetentionDays == 1

\* Scaled capacities
CacheMaxSize == 2
ErrorMaxErrors == 2
MaxEntriesPerFile == 2
BufferLimit == 3
HistoryLimit == 1

\* Scaled configuration of the PDF sender queue
PdfMaxRetries == 2
PdfRetryDelay == 1
PdfConcurrency == 1

\* ---------------------------------------------------------------------
\* Event keys
\* ---------------------------------------------------------------------
Orders == {1, 2}
Topics == {"orders/paid", "refunds/create"}

\* `${topic}:${resourceId}` -- injective on (topic, id) because no topic
\* contains ':' followed by digits only; modelled as the pair.
KeyOf(topic, resourceId) == <<topic, resourceId>>

\* the events delivered: two paid orders and the refund of the first
Events == {<<"orders/paid", 1>>, <<"orders/paid", 2>>, <<"refunds/create", 1>>}

Keys == {KeyOf(e[1], e[2]) : e \in Events}

NoTime == -1

VARIABLES
  now,            \* Date.now()
  inProgress,     \* WebhookDedupeStore.inProgress : Set of keys
  processed,      \* WebhookDedupeStore.processed  : Map key -> timestamp
  admitted,       \* history: keys whose last tryAcquire returned true and
                  \* that saw no complete/release since
  lastComplete,   \* history: key -> time of the last complete(key), or NoTime
  lastCall,       \* the call on the dedup gate the last step made, if any
  ret,            \* the value that call returned
  circuit,        \* a CircuitBreakerV2 instance (fields and metrics)
  onlyFailures,   \* history: recordFailure is the only operation invoked on
                  \* the breaker since its construction
  callLog,        \* history: every recorded call sample, never pruned
  openedAt,       \* history: when the breaker entered OPEN, while it is OPEN
  halfOpenSuccesses, \* history: successes recorded since it entered HALF_OPEN
  executing,      \* execute(fn) calls whose fn is running
  probes,         \* those of them admitted in the present HALF_OPEN phase
  comprobanteStore, \* ComprobanteStore: [data: Map keys, dirty]
  storeFile,      \* content of config.storage.comprobantesFile on disk
  webhookQueue,   \* AsyncQueue: [pending: list of task ids, running: set]
  task,           \* position of every webhook task / manual request
  emitidos,       \* numero_interno -> successful emitirComprobante calls
  billerCircuit,  \* the CircuitBreaker created for Biller in server.js
  emitidosAlCrash, \* history: documents emitted before the last crash
  errors,         \* ErrorStore.errors, in the Map's order
  buffer,         \* AuditLogger.buffer
  cache,          \* BillerSearchCache.cache, in the Map's order
  fetching,       \* getOrFetch caller -> the key whose fetchFn it awaits
  errorSeq,       \* number of error ids generated so far
  persist,        \* a file-backed store in memory: [data, dirty, pc of save(), loaded]
  files,          \* its files on disk: [main: filePath, tmp: filePath + '.tmp']
  audit,          \* AuditLogger: [currentFile, entriesInCurrentFile, seq of ids]
  auditFiles,     \* the files of logsDir: filename -> content
  recon,          \* a reconciliation run: [pc, locals, pos, the three lists]
  reportStore,    \* ReconciliationService: [files of reportsDir, history, ids]
  pdf             \* PDFSenderQueue, the sends under way and the calls of
                  \* _processNext that setImmediate and setTimeout hold

vars == <<now, inProgress, processed, admitted, lastComplete, lastCall, ret,
          circuit, onlyFailures, callLog, openedAt, halfOpenSuccesses,
          executing, probes,
          comprobanteStore, storeFile, webhookQueue, task,
          emitidos, billerCircuit, emitidosAlCrash, errors, buffer,
          cache, fetching, errorSeq, persist, files,
          audit, auditFiles, recon, reportStore, pdf>>

dedupeVars == <<inProgress, processed, admitted, lastComplete>>
circuitVars == <<circuit, onlyFailures, callLog, openedAt, halfOpenSuccesses,
                 executing, probes>>
execVars == <<executing, probes>>
cacheVars == <<cache, fetching>>
saveVars == <<persist, files>>
auditVars == <<audit, auditFiles>>
reconVars == <<recon, reportStore>>
pdfVars == <<pdf>>
restVars == <<saveVars, auditVars, reconVars, pdfVars>>
utilVars == <<cache, fetching, errorSeq, restVars>>
serverVars == <<comprobanteStore, storeFile, webhookQueue, task,
                emitidos, billerCircuit, emitidosAlCrash, errors, buffer, utilVars>>
pipelineVars == <<comprobanteStore, storeFile, webhookQueue, task,
                  emitidos, billerCircuit, emitidosAlCrash>>
callVars == <<lastCall, ret>>
coreVars == <<dedupeVars, circuitVars, pipelineVars, errors, cache, fetching, errorSeq,
              pdfVars>>
nonPdfVars == <<dedupeVars, circuitVars, pipelineVars, errors, cache, fetching, errorSeq,
                buffer, saveVars, auditVars, reconVars>>

Call(op, arg) == [op |-> op, arg |-> arg]

\* ---------------------------------------------------------------------
\* WebhookDedupeStore
\* ---------------------------------------------------------------------

TryAcquireRet_IgnoresInFlight(ip, pr, key) ==
  IF key \in DOMAIN pr THEN FALSE ELSE TRUE

\* tryAcquire: the value returned
TryAcquireRet(ip, pr, key) ==
  IF key \in ip THEN FALSE
  ELSE IF key \in DOMAIN pr THEN FALSE
  ELSE TRUE

\* tryAcquire: the in-flight set afterwards
TryAcquireInProgress(ip, pr, key) ==
  IF TryAcquireRet(ip, pr, key) THEN ip \cup {key} ELSE ip

CompleteInProgress_KeepsLock(ip, key) == ip

\* complete: this.inProgress.delete(key)
CompleteInProgress(ip, key) == ip \ {key}

\* complete: this.processed.set(key, Date.now())
CompleteProcessed(pr, key, t) ==
  [k \in DOMAIN pr \cup {key} |-> IF k = key THEN t ELSE pr[k]]

\* release: this.inProgress.delete(key)
ReleaseInProgress(ip, key) == ip \ {key}

\* cleanup: delete every entry with timestamp < Date.now() - windowMs
CleanupProcessed(pr, t, windowMs) ==
  LET cutoff == t - windowMs
      keep == {k \in DOMAIN pr : ~(pr[k] < cutoff)}
  IN  [k \in keep |-> pr[k]]

\* --- the gate driven directly (any sequence of calls) ---

DTryAcquire(topic, id) ==
  LET key == KeyOf(topic, id) IN
  /\ ret' = TryAcquireRet(inProgress, processed, key)
  /\ inProgress' = TryAcquireInProgress(inProgress, processed, key)
  /\ admitted' = IF ret' THEN admitted \cup {key} ELSE admitted
  /\ lastCall' = Call("tryAcquire", key)
  /\ UNCHANGED <<now, processed, lastComplete, circuitVars, serverVars>>

DComplete(topic, id) ==
  LET key == KeyOf(topic, id) IN
  /\ inProgress' = CompleteInProgress(inProgress, key)
  /\ processed' = CompleteProcessed(processed, key, now)
  /\ admitted' = admitted \ {key}
  /\ lastComplete' = [lastComplete EXCEPT ![key] = now]
  /\ lastCall' = Call("complete", key)
  /\ ret' = FALSE
  /\ UNCHANGED <<now, circuitVars, serverVars>>

DRelease(topic, id) ==
  LET key == KeyOf(topic, id) IN
  /\ inProgress' = ReleaseInProgress(inProgress, key)
  /\ admitted' = admitted \ {key}
  /\ lastCall' = Call("release", key)
  /\ ret' = FALSE
  /\ UNCHANGED <<now, processed, lastComplete, circuitVars, serverVars>>

\* the setInterval(() => this.cleanup(), 60 * 1000) of the constructor
DCleanup ==
  /\ processed' = CleanupProcessed(processed, now, WindowMs)
  /\ lastCall' = Call("cleanup", <<>>)
  /\ ret' = FALSE
  /\ UNCHANGED <<now, inProgress, admitted, lastComplete, circuitVars, serverVars>>

Tick ==
  /\ now < MaxTime
  /\ now' = now + 1
  /\ lastCall' = Call("none", <<>>)
  /\ ret' = FALSE
  /\ UNCHANGED <<dedupeVars, circuitVars, serverVars>>

\* ---------------------------------------------------------------------
\* CircuitBreakerV2
\* ---------------------------------------------------------------------
CB_STATE == [CLOSED |-> "CLOSED", OPEN |-> "OPEN", HALF_OPEN |-> "HALF_OPEN"]

CircuitStates == {CB_STATE.CLOSED, CB_STATE.OPEN, CB_STATE.HALF_OPEN}

DefaultVolumeThreshold == 5
DefaultSuccessThreshold == 2

\* constructor(options), an option of 0 standing for one left out
\* (options.successThreshold || 2, options.volumeThreshold || 5); the latency samples and the counter of
\* timed-out calls are observability-only and carry no control flow, they
\* are left out
NewCircuit(F, S, T, V, W) ==
  [ failureThreshold |-> F,
    successThreshold |-> IF S = 0 THEN DefaultSuccessThreshold ELSE S,
    timeout |-> T,
    volumeThreshold |-> IF V = 0 THEN DefaultVolumeThreshold ELSE V,
    windowDuration |-> W,
    state |-> CB_STATE.CLOSED,
    failures |-> 0, successes |-> 0, consecutiveSuccesses |-> 0,
    nextAttemptTime |-> NoTime,
    lastFailureTime |-> NoTime, lastSuccessTime |-> NoTime,
    metrics |-> [ totalCalls |-> 0, successfulCalls |-> 0, failedCalls |-> 0,
                  rejectedCalls |-> 0, callsInWindow |-> <<>> ] ]

Sample(t, ok) == [timestamp |-> t, success |-> ok]

InWindow(samples, t, w) == SelectSeq(samples, LAMBDA c : c.timestamp > t - w)

\* _cleanupMetrics
CleanupMetrics(c, t) ==
  [c EXCEPT !.metrics.callsInWindow = InWindow(@, t, c.windowDuration)]

TransitionTo_KeepsDeadline(c, newState, t) ==
  LET c1 == [c EXCEPT !.state = newState] IN
  IF newState = CB_STATE.OPEN
    THEN IF c.nextAttemptTime = NoTime
           THEN [c1 EXCEPT !.nextAttemptTime = t + c.timeout]
           ELSE c1
  ELSE IF newState = CB_STATE.HALF_OPEN
    THEN [c1 EXCEPT !.consecutiveSuccesses = 0]
  ELSE [c1 EXCEPT !.failures = 0, !.consecutiveSuccesses = 0]

\* _transitionTo
TransitionTo(c, newState, t) ==
  LET c1 == [c EXCEPT !.state = newState] IN
  IF newState = CB_STATE.OPEN
    THEN [c1 EXCEPT !.nextAttemptTime = t + c.timeout]
  ELSE IF newState = CB_STATE.HALF_OPEN
    THEN [c1 EXCEPT !.consecutiveSuccesses = 0]
  ELSE [c1 EXCEPT !.failures = 0, !.consecutiveSuccesses = 0]

CanExecuteRet_Late(c, t) ==
  IF c.state = CB_STATE.CLOSED THEN TRUE
  ELSE IF c.state = CB_STATE.OPEN THEN t > c.nextAttemptTime
  ELSE TRUE

\* canExecute: the value returned
CanExecuteRet(c, t) ==
  IF c.state = CB_STATE.CLOSED THEN TRUE
  ELSE IF c.state = CB_STATE.OPEN THEN t >= c.nextAttemptTime
  ELSE TRUE

\* canExecute: the breaker afterwards
CanExecute(c, t) ==
  IF c.state = CB_STATE.OPEN /\ t >= c.nextAttemptTime
    THEN TransitionTo(c, CB_STATE.HALF_OPEN, t)
    ELSE c

RecordSuccess_ClosesWhenOpen(c, t) ==
  LET c1 == [c EXCEPT !.successes = @ + 1,
                      !.consecutiveSuccesses = @ + 1,
                      !.lastSuccessTime = t,
                      !.metrics.totalCalls = @ + 1,
                      !.metrics.successfulCalls = @ + 1,
                      !.metrics.callsInWindow = Append(@, Sample(t, TRUE))]
  IN
  IF c1.state \in {CB_STATE.HALF_OPEN, CB_STATE.OPEN}
    THEN IF c1.consecutiveSuccesses >= c1.successThreshold
           THEN TransitionTo(c1, CB_STATE.CLOSED, t)
           ELSE c1
  ELSE IF c1.state = CB_STATE.CLOSED
    THEN [c1 EXCEPT !.failures = 0]
  ELSE c1

RecordSuccess_KeepsFailures(c, t) ==
  LET c1 == [c EXCEPT !.successes = @ + 1,
                      !.consecutiveSuccesses = @ + 1,
                      !.lastSuccessTime = t,
                      !.metrics.totalCalls = @ + 1,
                      !.metrics.successfulCalls = @ + 1,
                      !.metrics.callsInWindow = Append(@, Sample(t, TRUE))]
  IN
  IF c1.state = CB_STATE.HALF_OPEN
    THEN IF c1.consecutiveSuccesses >= c1.successThreshold
           THEN TransitionTo(c1, CB_STATE.CLOSED, t)
           ELSE c1
  ELSE c1

\* recordSuccess
RecordSuccess(c, t) ==
  LET c1 == [c EXCEPT !.successes = @ + 1,
                      !.consecutiveSuccesses = @ + 1,
                      !.lastSuccessTime = t,
                      !.metrics.totalCalls = @ + 1,
                      !.metrics.successfulCalls = @ + 1,
                      !.metrics.callsInWindow = Append(@, Sample(t, TRUE))]
  IN
  IF c1.state = CB_STATE.HALF_OPEN
    THEN IF c1.consecutiveSuccesses >= c1.successThreshold
           THEN TransitionTo(c1, CB_STATE.CLOSED, t)
           ELSE c1
  ELSE IF c1.state = CB_STATE.CLOSED
    THEN [c1 EXCEPT !.failures = 0]
  ELSE c1

ShouldOpen_NoVolume(c) == c.failures >= c.failureThreshold

ShouldOpen_Strict(c) ==
  IF Len(c.metrics.callsInWindow) < c.volumeThreshold
    THEN FALSE
    ELSE c.failures > c.failureThreshold

\* _shouldOpen, on the window already pruned by _cleanupMetrics
ShouldOpen(c) ==
  IF Len(c.metrics.callsInWindow) < c.volumeThreshold
    THEN FALSE
    ELSE c.failures >= c.failureThreshold

\* recordFailure
RecordFailure(c, t) ==
  LET c1 == [c EXCEPT !.failures = @ + 1,
                      !.consecutiveSuccesses = 0,
                      !.lastFailureTime = t,
                      !.metrics.totalCalls = @ + 1,
                      !.metrics.failedCalls = @ + 1,
                      !.metrics.callsInWindow = Append(@, Sample(t, FALSE))]
  IN
  IF c1.state = CB_STATE.HALF_OPEN
    THEN TransitionTo(c1, CB_STATE.OPEN, t)
  ELSE IF c1.state = CB_STATE.CLOSED
    THEN LET c2 == CleanupMetrics(c1, t) IN
         IF ShouldOpen(c2) THEN TransitionTo(c2, CB_STATE.OPEN, t) ELSE c2
  ELSE c1

RecordRejection_CountsFailure(c) ==
  [c EXCEPT !.metrics.rejectedCalls = @ + 1, !.failures = @ + 1]

\* recordRejection
RecordRejection(c) == [c EXCEPT !.metrics.rejectedCalls = @ + 1]

\* forceState
ForceState(c, s, t) ==
  LET c1 == [c EXCEPT !.state = s] IN
  IF s = CB_STATE.OPEN
    THEN [c1 EXCEPT !.nextAttemptTime = t + c.timeout]
  ELSE IF s = CB_STATE.CLOSED
    THEN [c1 EXCEPT !.failures = 0, !.consecutiveSuccesses = 0]
  ELSE c1

\* reset
Reset(c) ==
  [c EXCEPT !.state = CB_STATE.CLOSED, !.failures = 0, !.successes = 0,
            !.consecutiveSuccesses = 0, !.nextAttemptTime = NoTime]

\* --- the breaker driven directly ---

\* history kept beside a step of the breaker: the time it entered OPEN
\* (entered anew by forceState(OPEN)), and the successes recorded since it
\* entered HALF_OPEN
Hist(isSuccess, forcedOpen) ==
  /\ openedAt' = IF circuit'.state # CB_STATE.OPEN THEN NoTime
                 ELSE IF circuit.state # CB_STATE.OPEN \/ forcedOpen THEN now
                 ELSE openedAt
  /\ halfOpenSuccesses' =
       IF circuit'.state # CB_STATE.HALF_OPEN \/ circuit.state # CB_STATE.HALF_OPEN
         THEN 0
       ELSE IF isSuccess THEN halfOpenSuccesses + 1
       ELSE halfOpenSuccesses

CbCanExecute ==
  /\ circuit' = CanExecute(circuit, now)
  /\ Hist(FALSE, FALSE)
  /\ onlyFailures' = FALSE
  /\ UNCHANGED <<now, callVars, callLog, execVars, dedupeVars, serverVars>>

CbRecordSuccess ==
  /\ Len(callLog) < MaxCalls
  /\ circuit' = RecordSuccess(circuit, now)
  /\ Hist(TRUE, FALSE)
  /\ callLog' = Append(callLog, Sample(now, TRUE))
  /\ onlyFailures' = FALSE
  /\ UNCHANGED <<now, callVars, execVars, dedupeVars, serverVars>>

CbRecordFailure ==
  /\ Len(callLog) < MaxCalls
  /\ circuit' = RecordFailure(circuit, now)
  /\ Hist(FALSE, FALSE)
  /\ callLog' = Append(callLog, Sample(now, FALSE))
  /\ UNCHANGED <<now, callVars, onlyFailures, execVars, dedupeVars, serverVars>>

CbForceState(s) ==
  /\ circuit' = ForceState(circuit, s, now)
  /\ Hist(FALSE, s = CB_STATE.OPEN)
  /\ onlyFailures' = FALSE
  /\ UNCHANGED <<now, callVars, callLog, execVars, dedupeVars, serverVars>>

CbReset ==
  /\ circuit' = Reset(circuit)
  /\ Hist(FALSE, FALSE)
  /\ onlyFailures' = FALSE
  /\ UNCHANGED <<now, callVars, callLog, execVars, dedupeVars, serverVars>>

\* the setInterval(() => this._cleanupMetrics(), windowDuration / 2)
CbCleanupMetrics ==
  /\ circuit' = CleanupMetrics(circuit, now)
  /\ lastCall' = Call("none", <<>>)
  /\ ret' = FALSE
  /\ UNCHANGED <<now, onlyFailures, callLog, openedAt, halfOpenSuccesses,
                 execVars, dedupeVars, serverVars>>

\* --- the breaker driven through execute(fn, fallback) ---

\* execute: canExecute() is false, the call is rejected and fn never runs
ExecuteRejected ==
  /\ ~CanExecuteRet(circuit, now)
  /\ circuit.metrics.rejectedCalls < MaxRejections
  /\ circuit' = RecordRejection(CanExecute(circuit, now))
  /\ Hist(FALSE, FALSE)
  /\ onlyFailures' = FALSE
  /\ lastCall' = Call("execute", <<>>)
  /\ ret' = FALSE
  /\ UNCHANGED <<now, callLog, execVars, dedupeVars, serverVars>>

\* execute: canExecute() is true, fn() is started and awaited
ExecuteAdmitted ==
  /\ CanExecuteRet(circuit, now)
  /\ executing < MaxExecuting
  /\ circuit' = CanExecute(circuit, now)
  /\ Hist(FALSE, FALSE)
  /\ executing' = executing + 1
  /\ probes' = IF circuit'.state # CB_STATE.HALF_OPEN THEN 0
               ELSE IF circuit.state # CB_STATE.HALF_OPEN THEN 1
               ELSE probes + 1
  /\ onlyFailures' = FALSE
  /\ lastCall' = Call("execute", <<>>)
  /\ ret' = TRUE
  /\ UNCHANGED <<now, callLog, dedupeVars, serverVars>>

\* execute: fn() settled; a rejection that isFailure(error) does not count
\* is recorded as a success
ExecuteSettle(ok, probe) ==
  /\ executing > 0
  /\ IF probe THEN probes > 0 ELSE probes < executing
  /\ Len(callLog) < MaxCalls
  /\ circuit' = IF ok THEN RecordSuccess(circuit, now)
                      ELSE RecordFailure(circuit, now)
  /\ Hist(ok, FALSE)
  /\ callLog' = Append(callLog, Sample(now, ok))
  /\ executing' = executing - 1
  /\ probes' = IF circuit'.state # CB_STATE.HALF_OPEN THEN 0
               ELSE IF probe THEN probes - 1 ELSE probes
  /\ onlyFailures' = FALSE
  /\ lastCall' = Call("settle", <<>>)
  /\ ret' = ok
  /\ UNCHANGED <<now, dedupeVars, serverVars>>

\* ---------------------------------------------------------------------
\* ComprobanteStore
\* ---------------------------------------------------------------------

\* ids handed to the store: an order id, or `refund-${refundId}`
OrderId(o) == <<"order", o>>
RefundId(r) == <<"refund", r>>

\* const key = `shopify-${shopifyOrderId}`; also the numero_interno of the
\* document (`shopify-<order>` / `shopify-refund-<refund>`)
StoreKey(id) == <<"shopify", id>>

Docs == {StoreKey(IF e[1] = "refunds/create" THEN RefundId(e[2]) ELSE OrderId(e[2])) : e \in Events}

\* has(shopifyOrderId)
StoreHas(store, id) == StoreKey(id) \in store.data

\* set(shopifyOrderId, comprobante)
StoreSet(store, id) ==
  [store EXCEPT !.data = @ \cup {StoreKey(id)}, !.dirty = TRUE]

\* save(): the file afterwards (temp write, then rename)
StoreSaveFile(store, file) == IF store.dirty THEN store.data ELSE file

\* save(): the store afterwards
StoreSave(store) == [store EXCEPT !.dirty = FALSE]

\* constructor: load() of the file, dirty = false
StoreLoad(file) == [data |-> file, dirty |-> FALSE]

\* ---------------------------------------------------------------------
\* server.js: webhook handler, procesarPedidoPagado, procesarReembolso,
\* manual invoicing
\* ---------------------------------------------------------------------
ManualOrders == {1}
ManualProcs == {<<"manual", o>> : o \in ManualOrders}
Procs == Keys \cup ManualProcs

IsWebhook(p) == p \in Keys
IsRefund(p) == p[1] = "refunds/create"

\* refund.order_id of refund r
OrderOfRefund(r) == OrderId(r)

\* the id under which the process stores what it emits
SubjectOf(p) == IF IsRefund(p) THEN RefundId(p[2]) ELSE OrderId(p[2])

\* what a payload leads to before its first downstream request:
\* "ok" (well formed), "skip" (invalid order, tag 'facturado', refund
\* without items), "bad" (emitirComprobante rejects the data before sending)
Payloads == {"ok", "skip", "bad"}

NoTask == [pc |-> "none", attempt |-> 0, payload |-> "ok"]

\* priority: topic === 'refunds/create' ? 10 : 5
Priority(k) == IF IsRefund(k) THEN 10 ELSE 5

\* AsyncQueue: pending list ordered by priority, ties by arrival
InsertByPriority(pending, k) ==
  LET ahead == SelectSeq(pending, LAMBDA x : Priority(x) >= Priority(k))
      behind == SelectSeq(pending, LAMBDA x : Priority(x) < Priority(k))
  IN  ahead \o <<k>> \o behind

\* The synchronous prefix of procesarPedidoPagado / procesarReembolso up
\* to the first request it awaits: the position reached
\*   "done"   returned without emitting (skipped / invalid)
\*   "throw"  emitirComprobante threw before sending
\*   "emit"   POST /comprobantes/crear sent
\*   "lookup" GET /comprobantes?numero_interno= sent
StartPc(p, payload, store) ==
  IF IsRefund(p)
    THEN IF StoreHas(store, OrderOfRefund(p[2]))
           THEN (IF payload = "skip" THEN "done"
                 ELSE IF payload = "bad" THEN "throw" ELSE "emit")
           ELSE "lookup"
    ELSE IF payload = "skip" THEN "done"
         ELSE IF StoreHas(store, OrderId(p[2])) THEN "done"
         ELSE IF payload = "bad" THEN "throw"
         ELSE "emit"

\* The in-memory state the webhook pipeline mutates, threaded through the
\* queue's dispatch loop
Mem ==
  [ip |-> inProgress, pr |-> processed, adm |-> admitted,
   q |-> webhookQueue, task |-> task]

\* webhookDedupe.complete(topic, resourceId) after a task returned
MemComplete(m, k, t) ==
  [m EXCEPT !.ip = CompleteInProgress(@, k),
            !.pr = CompleteProcessed(@, k, t),
            !.adm = @ \ {k},
            !.task[k] = NoTask]

\* the catch block of the task: webhookDedupe.release(topic, resourceId)
MemRelease(m, k) ==
  [m EXCEPT !.ip = ReleaseInProgress(@, k),
            !.adm = @ \ {k},
            !.task[k] = NoTask]

Dispatch_NoBound(m, store, t) ==
  IF m.q.pending # <<>>
    THEN LET k == Head(m.q.pending)
             pc == StartPc(k, m.task[k].payload, store)
         IN  [m EXCEPT !.q.pending = Tail(@),
                       !.q.running = @ \cup {k},
                       !.task[k] = [pc |-> IF pc \in {"done", "throw"} THEN "marcar" ELSE pc,
                                    attempt |-> 1, payload |-> "ok"]]
    ELSE m

\* AsyncQueue: start pending tasks while a slot is free; a task that
\* returns or throws inside its synchronous prefix frees its slot at once
RECURSIVE Dispatch(_, _, _)
Dispatch(m, store, t) ==
  IF Cardinality(m.q.running) < QueueConcurrency /\ m.q.pending # <<>>
    THEN LET k == Head(m.q.pending)
             m1 == [m EXCEPT !.q.pending = Tail(@)]
             pc == StartPc(k, m.task[k].payload, store)
         IN  IF pc = "done" THEN Dispatch(MemComplete(m1, k, t), store, t)
             ELSE IF pc = "throw" THEN Dispatch(MemRelease(m1, k), store, t)
             ELSE Dispatch([m1 EXCEPT !.q.running = @ \cup {k},
                                      !.task[k] = [pc |-> pc, attempt |-> 1,
                                                   payload |-> IF pc = "lookup"
                                                                 THEN m.task[k].payload
                                                                 ELSE "ok"]],
                           store, t)
    ELSE m

\* AsyncQueue: the slot of a task that ended is freed, the next one starts
FreeSlot(m, k, store, t) ==
  Dispatch([m EXCEPT !.q.running = @ \ {k}], store, t)

SetMem(m) ==
  /\ inProgress' = m.ip
  /\ processed' = m.pr
  /\ admitted' = m.adm
  /\ lastComplete' = lastComplete
  /\ webhookQueue' = m.q
  /\ task' = m.task

\* AsyncQueue.enqueue(fn, {id, priority}); a full pending list rejects,
\* and the handler's .catch only logs
Enqueue(m, k, payload, store, t) ==
  IF Len(m.q.pending) >= MaxQueueSize
    THEN m
    ELSE Dispatch([m EXCEPT !.q.pending = InsertByPriority(@, k),
                            !.task[k] = [pc |-> "queued", attempt |-> 0,
                                         payload |-> payload]], store, t)

\* app.post(config.server.webhookPath): HMAC verified, 200 sent, then
\* deduplication and enqueue
WebhookDelivery(topic, id, payload) ==
  LET k == KeyOf(topic, id)
      ok == TryAcquireRet(inProgress, processed, k)
      m0 == [Mem EXCEPT !.ip = TryAcquireInProgress(inProgress, processed, k),
                        !.adm = IF ok THEN @ \cup {k} ELSE @]
  IN
  /\ SetMem(IF ok THEN Enqueue(m0, k, payload, comprobanteStore, now) ELSE m0)
  /\ UNCHANGED <<now, callVars, circuitVars, comprobanteStore, storeFile,
                 emitidos, billerCircuit, emitidosAlCrash,
                 errors, buffer, utilVars>>

\* app.post('/api/facturar/:orderId') and each iteration of
\* app.post('/api/facturar-pendientes'): procesarPedidoPagado(order)
\* outside the dedup gate and the queue
ManualFacturar(o, payload) ==
  LET p == <<"manual", o>>
      pc == StartPc(p, payload, comprobanteStore)
  IN
  /\ task[p].pc = "none"
  /\ task' = [task EXCEPT ![p] = IF pc = "emit"
                                   THEN [pc |-> "emit", attempt |-> 1,
                                         payload |-> "ok"]
                                   ELSE NoTask]
  /\ UNCHANGED <<now, callVars, dedupeVars, circuitVars, comprobanteStore, storeFile,
                 webhookQueue, emitidos, billerCircuit,
                 emitidosAlCrash, errors, buffer, utilVars>>

\* The process ends: a webhook task completes its key and frees its slot
\* (if the queue has not timed it out already), a manual request answers
EndOk(m, p, store, t) ==
  IF IsWebhook(p)
    THEN FreeSlot(MemComplete(m, p, t), p, store, t)
    ELSE [m EXCEPT !.task[p] = NoTask]

EndThrow(m, p, store, t) ==
  IF IsWebhook(p)
    THEN FreeSlot(MemRelease(m, p), p, store, t)
    ELSE [m EXCEPT !.task[p] = NoTask]

\* biller.emitirComprobante resolved
EmitOk(p) ==
  LET doc == StoreKey(SubjectOf(p))
      store1 == StoreSet(comprobanteStore, SubjectOf(p))
  IN
  /\ task[p].pc = "emit"
  /\ emitidos[doc] < MaxEmitidos
  /\ emitidos' = [emitidos EXCEPT ![doc] = @ + 1]
  /\ comprobanteStore' = store1
  /\ IF IsRefund(p)
       THEN SetMem(EndOk(Mem, p, store1, now))
       ELSE SetMem([Mem EXCEPT !.task[p].pc = "marcar"])
  /\ UNCHANGED <<now, callVars, circuitVars, storeFile, billerCircuit,
                 emitidosAlCrash, errors, buffer, utilVars>>

\* a request of emitirComprobante failed: withRetry sends it again while
\* the error is retryable and attempts remain, else the error is thrown
EmitFail(p, retryable) ==
  /\ task[p].pc = "emit"
  /\ IF retryable /\ task[p].attempt < MaxAttempts
       THEN SetMem([Mem EXCEPT !.task[p].attempt = @ + 1])
       ELSE SetMem(EndThrow(Mem, p, comprobanteStore, now))
  /\ UNCHANGED <<now, callVars, circuitVars, comprobanteStore, storeFile,
                 emitidos, billerCircuit, emitidosAlCrash, errors, buffer, utilVars>>

\* shopify.marcarComoFacturado / agregarNotaComprobante settled (their
\* errors are caught), procesarPedidoPagado returns
MarcarDone(p) ==
  /\ task[p].pc = "marcar"
  /\ SetMem(EndOk(Mem, p, comprobanteStore, now))
  /\ UNCHANGED <<now, callVars, circuitVars, comprobanteStore, storeFile, emitidos,
                 billerCircuit, emitidosAlCrash, errors, buffer, utilVars>>

\* biller.buscarPorNumeroInterno(`shopify-${orderId}`) settled in
\* procesarReembolso; an error of the request is swallowed into null
LookupDone(p, outcome) ==
  LET found == outcome = "found"
      pc == IF ~found \/ task[p].payload = "skip" THEN "done"
            ELSE IF task[p].payload = "bad" THEN "throw" ELSE "emit"
  IN
  /\ task[p].pc = "lookup"
  /\ outcome = "found" => emitidos[StoreKey(OrderOfRefund(p[2]))] > 0
  /\ outcome = "notfound" => emitidos[StoreKey(OrderOfRefund(p[2]))] = 0
  /\ SetMem(IF pc = "done" THEN EndOk(Mem, p, comprobanteStore, now)
            ELSE IF pc = "throw" THEN EndThrow(Mem, p, comprobanteStore, now)
            ELSE [Mem EXCEPT !.task[p].pc = "emit", !.task[p].payload = "ok"])
  /\ UNCHANGED <<now, callVars, circuitVars, comprobanteStore, storeFile,
                 emitidos, billerCircuit, emitidosAlCrash, errors, buffer, utilVars>>

\* AsyncQueue: the task exceeded `timeout`; its promise is rejected and its
\* slot freed, the function itself keeps running
TaskTimeout(k) ==
  /\ k \in webhookQueue.running
  /\ SetMem(Dispatch([Mem EXCEPT !.q.running = @ \ {k}], comprobanteStore, now))
  /\ UNCHANGED <<now, callVars, circuitVars, comprobanteStore, storeFile,
                 emitidos, billerCircuit, emitidosAlCrash,
                 errors, buffer, utilVars>>

\* the interval of startAutoSave: save()
AutoSave ==
  /\ comprobanteStore.dirty
  /\ storeFile' = StoreSaveFile(comprobanteStore, storeFile)
  /\ comprobanteStore' = StoreSave(comprobanteStore)
  /\ UNCHANGED <<now, callVars, dedupeVars, circuitVars, webhookQueue, task,
                 emitidos, billerCircuit,
                 emitidosAlCrash, errors, buffer, utilVars>>

\* the sweep of the dedup gate inside the running server
Sweep ==
  /\ processed' = CleanupProcessed(processed, now, WindowMs)
  /\ processed' # processed
  /\ UNCHANGED <<now, callVars, inProgress, admitted, lastComplete, circuitVars, serverVars>>

\* The process dies and is started again: everything in memory is lost,
\* the stores are constructed anew and the result store loads its file
CrashRestart ==
  /\ inProgress' = {}
  /\ processed' = <<>>
  /\ admitted' = {}
  /\ webhookQueue' = [pending |-> <<>>, running |-> {}]
  /\ task' = [p \in Procs |-> NoTask]
  /\ comprobanteStore' = StoreLoad(storeFile)
  /\ emitidosAlCrash' = {d \in Docs : emitidos[d] > 0}
  /\ UNCHANGED <<now, callVars, lastComplete, circuitVars, storeFile,
                 emitidos, billerCircuit, errors, buffer, utilVars>>

\* ---------------------------------------------------------------------
\* BillerSearchCache
\* ---------------------------------------------------------------------
CacheTypes == {"comprobante", "numero_interno"}

\* _generateKey: `${type}:${key}`, modelled as the pair
GenerateKey(type, key) == <<type, key>>

CacheKeys == {GenerateKey("comprobante", 1), GenerateKey("comprobante", 2),
              GenerateKey("numero_interno", 1)}

Values == {"v1", "v2"}
Null == "null"
NoKey == <<>>
\* the callers of getOrFetch that can be inside `await fetchFn()` at once
Callers == {1, 2}

\* the Map, in insertion order: a sequence of entries; createdAt and the
\* hit counters are observability-only and left out
CacheIndex(c, k) == CHOOSE i \in 1..Len(c) : c[i].key = k
CacheHas(c, k) == \E i \in 1..Len(c) : c[i].key = k
CacheDelete(c, k) == SelectSeq(c, LAMBDA e : e.key # k)

CacheGetRet_ExpiresEarly(c, k, t) ==
  IF ~CacheHas(c, k) THEN Null
  ELSE IF t >= c[CacheIndex(c, k)].expiresAt THEN Null
  ELSE c[CacheIndex(c, k)].value

\* get: the value returned
CacheGetRet(c, k, t) ==
  IF ~CacheHas(c, k) THEN Null
  ELSE IF t > c[CacheIndex(c, k)].expiresAt THEN Null
  ELSE c[CacheIndex(c, k)].value

\* get: the cache afterwards
CacheGet(c, k, t) ==
  IF ~CacheHas(c, k) THEN c
  ELSE IF t > c[CacheIndex(c, k)].expiresAt THEN CacheDelete(c, k)
  ELSE [c EXCEPT ![CacheIndex(c, k)].lastAccess = t]

EvictedKey_FirstInserted(c) == IF c = <<>> THEN NoKey ELSE c[1].key

\* _evictOne: the key of the first entry with the least lastAccess
EvictedKey(c) ==
  IF c = <<>> THEN NoKey
  ELSE LET i == CHOOSE i \in 1..Len(c) :
                  /\ \A j \in 1..Len(c) : c[i].lastAccess <= c[j].lastAccess
                  /\ \A j \in 1..(i - 1) : c[j].lastAccess > c[i].lastAccess
       IN  c[i].key

EvictOne_Nothing(c) == c

\* _evictOne
EvictOne(c) == IF c = <<>> THEN c ELSE CacheDelete(c, EvictedKey(c))

\* set: whether it evicts
SetEvicts(c, k) == Len(c) >= CacheMaxSize /\ ~CacheHas(c, k)

\* set(type, key, value, customTtl), customTtl = 0 standing for none given
CacheSet(c, k, v, customTtl, t) ==
  LET ttl == IF customTtl = 0 THEN DefaultTtl ELSE customTtl
      c1 == IF SetEvicts(c, k) THEN EvictOne(c) ELSE c
      entry == [key |-> k, value |-> v, expiresAt |-> t + ttl, lastAccess |-> t]
  IN  IF CacheHas(c1, k)
        THEN [c1 EXCEPT ![CacheIndex(c1, k)] = entry]
        ELSE Append(c1, entry)

\* invalidateType: every key with the prefix `${type}:`
InvalidateTypeCache(c, type) == SelectSeq(c, LAMBDA e : e.key[1] # type)

\* _cleanup: every expired entry is deleted
CacheCleanup(c, t) == SelectSeq(c, LAMBDA e : ~(t > e.expiresAt))

FetchThrowCache_StoresError(c, k, t) == CacheSet(c, k, "error", 0, t)

\* getOrFetch: the catch block rethrows, the cache is not touched
FetchThrowCache(c, k, t) == c

Get(k) ==
  /\ ret' = CacheGetRet(cache, k, now)
  /\ cache' = CacheGet(cache, k, now)
  /\ lastCall' = Call("get", k)
  /\ UNCHANGED <<now, fetching, errorSeq, dedupeVars, circuitVars, pipelineVars,
                 errors, buffer, restVars>>

\* ret: set returns nothing; here the key it evicted, if any
Set(k, v, customTtl) ==
  /\ cache' = CacheSet(cache, k, v, customTtl, now)
  /\ ret' = IF SetEvicts(cache, k) THEN EvictedKey(cache) ELSE NoKey
  /\ lastCall' = Call("set", <<k, v, customTtl>>)
  /\ UNCHANGED <<now, fetching, errorSeq, dedupeVars, circuitVars, pipelineVars,
                 errors, buffer, restVars>>

Invalidate(k) ==
  /\ cache' = CacheDelete(cache, k)
  /\ ret' = CacheHas(cache, k)
  /\ lastCall' = Call("invalidate", k)
  /\ UNCHANGED <<now, fetching, errorSeq, dedupeVars, circuitVars, pipelineVars,
                 errors, buffer, restVars>>

InvalidateType(type) ==
  /\ cache' = InvalidateTypeCache(cache, type)
  /\ ret' = Len(cache) - Len(cache')
  /\ lastCall' = Call("invalidateType", type)
  /\ UNCHANGED <<now, fetching, errorSeq, dedupeVars, circuitVars, pipelineVars,
                 errors, buffer, restVars>>

\* the setInterval(() => this._cleanup(), this.cleanupInterval)
CacheCleanupTimer ==
  /\ cache' = CacheCleanup(cache, now)
  /\ ret' = FALSE
  /\ lastCall' = Call("cleanup", <<>>)
  /\ UNCHANGED <<now, fetching, errorSeq, dedupeVars, circuitVars, pipelineVars,
                 errors, buffer, restVars>>

StartFetch_Joins(f, caller, k) ==
  IF \E c \in DOMAIN f : f[c] = k THEN f ELSE [f EXCEPT ![caller] = k]

\* getOrFetch: `await fetchFn()` after a miss; the fetches under way are
\* not consulted
StartFetch(f, caller, k) == [f EXCEPT ![caller] = k]

\* getOrFetch up to `await fetchFn()`: a hit returns, a miss starts fetchFn
GetOrFetch(caller, k) ==
  /\ fetching[caller] = NoKey
  /\ ret' = CacheGetRet(cache, k, now)
  /\ cache' = CacheGet(cache, k, now)
  /\ fetching' = IF ret' = Null THEN StartFetch(fetching, caller, k) ELSE fetching
  /\ lastCall' = Call("getOrFetch", k)
  /\ UNCHANGED <<now, errorSeq, dedupeVars, circuitVars, pipelineVars,
                 errors, buffer, restVars>>

\* getOrFetch: fetchFn resolved with v (null: nothing found); a value is
\* cached and returned
FetchResolve(caller, v, customTtl) ==
  /\ fetching[caller] # NoKey
  /\ cache' = IF v # Null
                THEN CacheSet(cache, fetching[caller], v, customTtl, now)
                ELSE cache
  /\ ret' = v
  /\ fetching' = [fetching EXCEPT ![caller] = NoKey]
  /\ lastCall' = Call("fetchResolve", fetching[caller])
  /\ UNCHANGED <<now, errorSeq, dedupeVars, circuitVars, pipelineVars,
                 errors, buffer, restVars>>

\* getOrFetch: fetchFn threw, the error goes to the caller
FetchThrow(caller) ==
  /\ fetching[caller] # NoKey
  /\ cache' = FetchThrowCache(cache, fetching[caller], now)
  /\ ret' = "error"
  /\ fetching' = [fetching EXCEPT ![caller] = NoKey]
  /\ lastCall' = Call("fetchThrow", fetching[caller])
  /\ UNCHANGED <<now, errorSeq, dedupeVars, circuitVars, pipelineVars,
                 errors, buffer, restVars>>

\* ---------------------------------------------------------------------
\* ErrorStore
\* ---------------------------------------------------------------------

\* error.code: the codes _isRetryable names, and one it does not
NonRetryableCodes == {"VALIDATION_ERROR", "INVALID_TOKEN", "UNAUTHORIZED",
                      "FORBIDDEN", "NOT_FOUND", "DUPLICATE"}
NetworkCodes == {"ECONNRESET", "ETIMEDOUT", "ENOTFOUND"}
ErrorCodes == NonRetryableCodes \cup NetworkCodes \cup {"UNKNOWN_ERROR"}

\* error.status: 0 for an error without an HTTP status
ErrorStatuses == {0, 400, 404, 429, 499, 500, 503}

\* the errors handed to recordError: BillerError(message, code, status)
Errors == [code : ErrorCodes, status : ErrorStatuses]

\* the error of a failed request without further detail
ServerError == [code |-> "UNKNOWN_ERROR", status |-> 500]

IsRetryable_No429(error) ==
  IF error.code \in NonRetryableCodes THEN FALSE
  ELSE IF error.code \in NetworkCodes THEN TRUE
  ELSE IF error.status >= 500 THEN TRUE
  ELSE IF error.status >= 400 /\ error.status < 500 THEN FALSE
  ELSE TRUE

\* _isRetryable
IsRetryable(error) ==
  IF error.code \in NonRetryableCodes THEN FALSE
  ELSE IF error.code \in NetworkCodes THEN TRUE
  ELSE IF error.status >= 500 THEN TRUE
  ELSE IF error.status = 429 THEN TRUE
  ELSE IF error.status >= 400 /\ error.status < 500 THEN FALSE
  ELSE TRUE

\* the entry recordError builds; of its context the order id is kept
ErrorEntry(id, t, orderId, error) ==
  [id |-> id, timestamp |-> t, resolved |-> FALSE, context |-> orderId,
   retryable |-> IsRetryable(error)]

\* Array.prototype.sort((a, b) => new Date(b.timestamp) - new Date(a.timestamp)):
\* newest first, stable
RECURSIVE InsertNewestFirst(_, _)
InsertNewestFirst(sorted, e) ==
  IF sorted = <<>> THEN <<e>>
  ELSE IF Head(sorted).timestamp >= e.timestamp
    THEN <<Head(sorted)>> \o InsertNewestFirst(Tail(sorted), e)
    ELSE <<e>> \o sorted

RECURSIVE SortNewestFirst(_)
SortNewestFirst(s) ==
  IF s = <<>> THEN <<>>
  ELSE InsertNewestFirst(SortNewestFirst(SubSeq(s, 1, Len(s) - 1)), s[Len(s)])

\* Array.prototype.slice(0, end): a negative end counts from the end
Slice0(s, end) ==
  LET e == IF end < 0
             THEN (IF Len(s) + end < 0 THEN 0 ELSE Len(s) + end)
             ELSE (IF end > Len(s) THEN Len(s) ELSE end)
  IN  SubSeq(s, 1, e)

ErrorsCleanup_KeepsAllUnresolved(errs, maxErrors) ==
  IF Len(errs) <= maxErrors THEN errs
  ELSE LET sorted == SortNewestFirst(errs)
           unresolved == SelectSeq(sorted, LAMBDA e : ~e.resolved)
           resolved == SelectSeq(sorted, LAMBDA e : e.resolved)
       IN  unresolved \o Slice0(resolved, maxErrors - Len(unresolved))

\* _cleanup
ErrorsCleanup(errs, maxErrors) ==
  IF Len(errs) <= maxErrors THEN errs
  ELSE LET sorted == SortNewestFirst(errs)
           unresolved == SelectSeq(sorted, LAMBDA e : ~e.resolved)
           resolved == SelectSeq(sorted, LAMBDA e : e.resolved)
       IN  Slice0(unresolved \o Slice0(resolved, maxErrors - Len(unresolved)),
                  maxErrors)

\* recordError: this.errors.set(errorId, errorEntry); this._cleanup()
RecordErrorErrors(errs, id, t, orderId, error) ==
  ErrorsCleanup(Append(errs, ErrorEntry(id, t, orderId, error)), ErrorMaxErrors)

\* resolveError
ResolveErrorErrors(errs, id) ==
  [i \in 1..Len(errs) |->
     IF errs[i].id = id THEN [errs[i] EXCEPT !.resolved = TRUE] ELSE errs[i]]

RecordError(orderId, error) ==
  /\ errorSeq < MaxRecorded
  /\ errorSeq' = errorSeq + 1
  /\ errors' = RecordErrorErrors(errors, errorSeq + 1, now, orderId, error)
  /\ ret' = errorSeq + 1
  /\ lastCall' = Call("recordError", <<orderId, error>>)
  /\ UNCHANGED <<now, cacheVars, dedupeVars, circuitVars, pipelineVars, buffer,
                 restVars>>

ResolveError(id) ==
  /\ errors' = ResolveErrorErrors(errors, id)
  /\ ret' = \E i \in 1..Len(errors) : errors[i].id = id
  /\ lastCall' = Call("resolveError", id)
  /\ UNCHANGED <<now, errorSeq, cacheVars, dedupeVars, circuitVars, pipelineVars,
                 buffer, restVars>>

\* ---------------------------------------------------------------------
\* save() and load() of the file-backed stores (ErrorStore, ComprobanteStore)
\* ---------------------------------------------------------------------

\* what a file can hold: nothing (it does not exist), the complete JSON of
\* a store content, or the beginning of one
NoFile == [kind |-> "absent", data |-> {}]
Partial == [kind |-> "partial", data |-> {}]
Json(data) == [kind |-> "json", data |-> data]

\* entries handed to the store
Entries == {1, 2, 3}

\* load(): JSON.parse of the file succeeds
LoadSucceeds(main) == main # Partial

\* load(): the Map afterwards
LoadData(main) == IF main.kind = "json" THEN main.data ELSE {}

\* constructor
NewStore(main) ==
  [data |-> LoadData(main), dirty |-> FALSE, pc |-> "idle",
   loaded |-> LoadSucceeds(main)]

SaveOpenFiles_InPlace(f) == [f EXCEPT !.main = Partial]

\* save(): fs.writeFileSync(tempPath, ...) has created or truncated the file
\* and written part of the text
SaveOpenFiles(f) == [f EXCEPT !.tmp = Partial]

\* save(): fs.writeFileSync(tempPath, ...) returned
SaveWriteFiles(f, data) == [f EXCEPT !.tmp = Json(data)]

\* save(): fs.renameSync(tempPath, this.filePath)
SaveRenameFiles(f) == [main |-> f.tmp, tmp |-> NoFile]

\* recordError / set: this.errors.set(...); this.dirty = true
StorePut(e) ==
  /\ persist.pc = "idle"
  /\ e \notin persist.data
  /\ persist' = [persist EXCEPT !.data = @ \cup {e}, !.dirty = TRUE]
  /\ lastCall' = Call("put", e)
  /\ ret' = FALSE
  /\ UNCHANGED <<now, coreVars, buffer, auditVars, reconVars, files>>

\* save(), up to the middle of writeFileSync
SaveOpen ==
  /\ persist.pc = "idle"
  /\ persist.dirty
  /\ files' = SaveOpenFiles(files)
  /\ persist' = [persist EXCEPT !.pc = "writing"]
  /\ lastCall' = Call("save", "open")
  /\ ret' = FALSE
  /\ UNCHANGED <<now, coreVars, buffer, auditVars, reconVars>>

\* save(): writeFileSync completes
SaveWrite ==
  /\ persist.pc = "writing"
  /\ files' = SaveWriteFiles(files, persist.data)
  /\ persist' = [persist EXCEPT !.pc = "written"]
  /\ lastCall' = Call("save", "write")
  /\ ret' = FALSE
  /\ UNCHANGED <<now, coreVars, buffer, auditVars, reconVars>>

\* save(): writeFileSync throws (disk full); the catch block logs
SaveWriteThrows ==
  /\ persist.pc = "writing"
  /\ persist' = [persist EXCEPT !.pc = "idle"]
  /\ lastCall' = Call("save", "throw")
  /\ ret' = FALSE
  /\ UNCHANGED <<now, coreVars, buffer, auditVars, reconVars, files>>

\* save(): renameSync, dirty = false
SaveRename ==
  /\ persist.pc = "written"
  /\ files' = SaveRenameFiles(files)
  /\ persist' = [persist EXCEPT !.pc = "idle", !.dirty = FALSE]
  /\ lastCall' = Call("save", "rename")
  /\ ret' = FALSE
  /\ UNCHANGED <<now, coreVars, buffer, auditVars, reconVars>>

\* the process dies at any step and is started again: the store is
\* constructed anew and loads its file
StoreCrashRestart ==
  /\ persist' = NewStore(files.main)
  /\ lastCall' = Call("restart", persist.pc)
  /\ ret' = LoadSucceeds(files.main)
  /\ UNCHANGED <<now, coreVars, buffer, auditVars, reconVars, files>>

\* ---------------------------------------------------------------------
\* AuditLogger
\* ---------------------------------------------------------------------

\* new Date().toISOString().split('T')[0]: the calendar day of an instant
Day(t) == t \div DayLength

\* `audit-${date}-${time}.json`, modelled as the pair; null: no file yet
FileName(t) == <<Day(t), t>>
NoName == <<>>
FileDate(name) == name[1]

\* the entry log() builds; of its data the order id is kept
AuditEntry(id, t, orderId) == [id |-> id, timestamp |-> t, orderId |-> orderId]

\* content of a file: the JSON of an array of entries, or a text cut short
AuditJson(entries) == [kind |-> "json", entries |-> entries]
AuditPartial == [kind |-> "partial", entries |-> <<>>]

\* _getCurrentFilename: the name
GetCurrentFilename(a, t) ==
  IF a.currentFile = NoName \/ a.entriesInCurrentFile >= MaxEntriesPerFile
    THEN FileName(t)
    ELSE a.currentFile

\* _readFile, and the read inside flush: [] when the file is missing or
\* JSON.parse throws
ReadFile(fs, name) ==
  IF name \in DOMAIN fs /\ fs[name].kind = "json" THEN fs[name].entries ELSE <<>>

WriteFile(fs, name, content) ==
  [n \in DOMAIN fs \cup {name} |-> IF n = name THEN content ELSE fs[n]]

\* flush: the files afterwards
FlushFiles(fs, a, buf, t) ==
  LET name == GetCurrentFilename(a, t)
  IN  WriteFile(fs, name, AuditJson(ReadFile(fs, name) \o buf))

\* flush: the logger afterwards
FlushAudit(fs, a, buf, t) ==
  LET name == GetCurrentFilename(a, t)
      n == Len(ReadFile(fs, name)) + Len(buf)
  IN  IF n >= MaxEntriesPerFile
        THEN [a EXCEPT !.currentFile = NoName, !.entriesInCurrentFile = 0]
        ELSE [a EXCEPT !.currentFile = name, !.entriesInCurrentFile = n]

FlushThrowsBuffer_Drops(entries, buf) == buf

\* flush when writeFileSync throws, the buffer afterwards: the entries taken
\* go back in front of what the buffer holds
FlushThrowsBuffer(entries, buf) == entries \o buf

\* flush when writeFileSync throws: _getCurrentFilename has run, the
\* entries go back to the buffer
FlushThrowsAudit(a, t) ==
  IF a.currentFile = NoName \/ a.entriesInCurrentFile >= MaxEntriesPerFile
    THEN [a EXCEPT !.currentFile = FileName(t), !.entriesInCurrentFile = 0]
    ELSE a

\* _getFilesInRange
FilesInRange(fs, desde, hasta) ==
  {name \in DOMAIN fs : FileDate(name) >= Day(desde) /\ FileDate(name) <= Day(hasta)}

EntriesOf(fs, name) == {ReadFile(fs, name)[i] : i \in 1..Len(ReadFile(fs, name))}

\* filtros.orderId, 0 standing for no filter
NoFilter == 0
Matches(entry, orderId) == orderId = NoFilter \/ entry.orderId = orderId

\* query(desde, hasta, { orderId }): the entries returned, as a set
Query(fs, desde, hasta, orderId) ==
  {e \in UNION {EntriesOf(fs, name) : name \in FilesInRange(fs, desde, hasta)} :
     e.timestamp >= desde /\ e.timestamp <= hasta /\ Matches(e, orderId)}

\* _cleanupOldFiles
CleanupOldFiles(fs, t) ==
  [name \in {n \in DOMAIN fs : ~(FileDate(n) < Day(t) - RetentionDays)} |-> fs[name]]

\* log(action, data), with the immediate flush of a full buffer; the entry
\* it returns is the last of the buffer or of the file and is not kept in ret
AuditLog(orderId) ==
  /\ audit.seq < MaxLogged
  /\ LET buf == Append(buffer, AuditEntry(audit.seq + 1, now, orderId))
         a == [audit EXCEPT !.seq = @ + 1]
     IN  IF Len(buf) >= BufferLimit
           THEN /\ buffer' = <<>>
                /\ auditFiles' = FlushFiles(auditFiles, a, buf, now)
                /\ audit' = FlushAudit(auditFiles, a, buf, now)
           ELSE /\ buffer' = buf
                /\ audit' = a
                /\ auditFiles' = auditFiles
  /\ lastCall' = Call("log", <<orderId>>)
  /\ ret' = FALSE
  /\ UNCHANGED <<now, coreVars, saveVars, reconVars>>

\* flush(), from the timer
AuditFlush ==
  /\ buffer # <<>>
  /\ buffer' = <<>>
  /\ auditFiles' = FlushFiles(auditFiles, audit, buffer, now)
  /\ audit' = FlushAudit(auditFiles, audit, buffer, now)
  /\ lastCall' = Call("flush", GetCurrentFilename(audit, now))
  /\ ret' = TRUE
  /\ UNCHANGED <<now, coreVars, saveVars, reconVars>>

\* flush() whose writeFileSync throws (disk full) before or after it has
\* truncated the file: the catch block puts the entries back
AuditFlushThrows(truncated) ==
  /\ buffer # <<>>
  /\ auditFiles' = IF truncated
                     THEN WriteFile(auditFiles, GetCurrentFilename(audit, now), AuditPartial)
                     ELSE auditFiles
  /\ audit' = FlushThrowsAudit(audit, now)
  /\ buffer' = FlushThrowsBuffer(buffer, <<>>)
  /\ lastCall' = Call("flushThrows", GetCurrentFilename(audit, now))
  /\ ret' = FALSE
  /\ UNCHANGED <<now, coreVars, saveVars, reconVars>>

\* the process dies, between two calls or in the middle of the
\* writeFileSync of a flush, and a new AuditLogger is constructed
AuditRestart(midWrite) ==
  /\ midWrite => buffer # <<>>
  /\ buffer' = <<>>
  /\ audit' = [audit EXCEPT !.currentFile = NoName, !.entriesInCurrentFile = 0]
  /\ auditFiles' =
       CleanupOldFiles(IF midWrite
                         THEN WriteFile(auditFiles, GetCurrentFilename(audit, now), AuditPartial)
                         ELSE auditFiles, now)
  /\ lastCall' = Call("restart", midWrite)
  /\ ret' = FALSE
  /\ UNCHANGED <<now, coreVars, saveVars, reconVars>>

\* ---------------------------------------------------------------------
\* ReconciliationService
\* ---------------------------------------------------------------------

\* a field that is undefined, null or empty
Absent == "absent"

\* numero: a number in one record can be a string in the other
Num(n) == [t |-> "number", v |-> n]
Str(n) == [t |-> "string", v |-> n]

\* String(x)
JsString(x) == [t |-> "string", v |-> x.v]

\* local records (comprobanteStore.getAll()): with and without the Biller
\* id, the Shopify order id and the CAE
FullLocal ==
  [hasId |-> TRUE, hasOrder |-> TRUE, tipo_comprobante |-> "101", serie |-> "A",
   numero |-> Num(1), cae_numero |-> "c1"]
LocalRecords ==
  {FullLocal,
   [FullLocal EXCEPT !.hasId = FALSE],
   [FullLocal EXCEPT !.hasOrder = FALSE],
   [FullLocal EXCEPT !.cae_numero = Absent]}

\* what Biller returns for a record it has
RemoteRecords ==
  [tipo_comprobante : {"101", "111"}, serie : {"A", "B"},
   numero : {Str(1), Num(1), Str(2)}, cae_numero : {Absent, "c1", "c2"}]
NoRemote == [tipo_comprobante |-> Absent, serie |-> Absent, numero |-> Str(0),
             cae_numero |-> Absent]

\* outcome of obtenerComprobante(local.id): not run, a record, a BillerError
\* with status 404, any other error
PrimaryOutcomes == {"skipped", "found", "not_found", "error"}

\* outcome of the request inside buscarPorNumeroInterno: not run, a record,
\* an empty list, an error
FallbackOutcomes == {"skipped", "found", "none", "error"}

DISCREPANCY_TYPES == [MISSING_IN_BILLER |-> "missing_in_biller", DATA_MISMATCH |-> "data_mismatch"]
SEVERITY == [CRITICAL |-> "critical", HIGH |-> "high", MEDIUM |-> "medium", LOW |-> "low"]

\* _verificarConsistencia: the fields reported as inconsistent
VerificarConsistencia(local, biller) ==
  {f \in {"tipo_comprobante", "serie", "cae_numero"} :
     local[f] # Absent /\ biller[f] # Absent /\ local[f] # biller[f]}
  \cup (IF JsString(local.numero) # JsString(biller.numero) THEN {"numero"} ELSE {})

\* _reconciliar: the fallback lookup runs
FallbackRuns(local, primary) == primary # "found" /\ primary # "error" /\ local.hasOrder

\* _reconciliar: billerComprobante after both lookups; buscarPorNumeroInterno
\* returns null on an error, and _reconciliar ignores one too
Found(primary, fallback) == primary = "found" \/ fallback = "found"

ReconcileOne_MissingIsHigh(r, i, local, primary, fallback, biller) ==
  IF primary = "error"
    THEN [r EXCEPT !.errores = Append(@, [comprobante |-> i, tipo |-> "biller_fetch_error"])]
  ELSE IF ~Found(primary, fallback)
    THEN [r EXCEPT !.discrepancias =
            Append(@, [tipo |-> DISCREPANCY_TYPES.MISSING_IN_BILLER,
                       severity |-> SEVERITY.HIGH, local |-> i])]
  ELSE IF VerificarConsistencia(local, biller) # {}
    THEN [r EXCEPT !.discrepancias =
            Append(@, [tipo |-> DISCREPANCY_TYPES.DATA_MISMATCH,
                       severity |-> SEVERITY.MEDIUM, local |-> i])]
  ELSE [r EXCEPT !.verificados = Append(@, [local |-> i])]

ReconcileOne_NoContinue(r, i, local, primary, fallback, biller) ==
  LET r1 == IF primary = "error"
              THEN [r EXCEPT !.errores =
                      Append(@, [comprobante |-> i, tipo |-> "biller_fetch_error"])]
              ELSE r
  IN  IF ~Found(primary, fallback)
        THEN [r1 EXCEPT !.discrepancias =
                Append(@, [tipo |-> DISCREPANCY_TYPES.MISSING_IN_BILLER,
                           severity |-> SEVERITY.CRITICAL, local |-> i])]
      ELSE IF VerificarConsistencia(local, biller) # {}
        THEN [r1 EXCEPT !.discrepancias =
                Append(@, [tipo |-> DISCREPANCY_TYPES.DATA_MISMATCH,
                           severity |-> SEVERITY.MEDIUM, local |-> i])]
      ELSE [r1 EXCEPT !.verificados = Append(@, [local |-> i])]

\* _reconciliar: one turn of the loop, for the i-th local record
ReconcileOne(r, i, local, primary, fallback, biller) ==
  IF primary = "error"
    THEN [r EXCEPT !.errores = Append(@, [comprobante |-> i, tipo |-> "biller_fetch_error"])]
  ELSE IF ~Found(primary, fallback)
    THEN [r EXCEPT !.discrepancias =
            Append(@, [tipo |-> DISCREPANCY_TYPES.MISSING_IN_BILLER,
                       severity |-> SEVERITY.CRITICAL, local |-> i])]
  ELSE IF VerificarConsistencia(local, biller) # {}
    THEN [r EXCEPT !.discrepancias =
            Append(@, [tipo |-> DISCREPANCY_TYPES.DATA_MISMATCH,
                       severity |-> SEVERITY.MEDIUM, local |-> i])]
  ELSE [r EXCEPT !.verificados = Append(@, [local |-> i])]

\* _reconciliar: the resultado built after the loop
Resultado(r, id) ==
  [id |-> id,
   resumen |-> [total |-> Len(r.locals), verificados |-> Len(r.verificados),
                discrepancias |-> Len(r.discrepancias), errores |-> Len(r.errores)],
   discrepancias |-> r.discrepancias,
   errores |-> r.errores]

NoReport == [id |-> 0, resumen |-> [total |-> 0, verificados |-> 0,
                                    discrepancias |-> 0, errores |-> 0],
             discrepancias |-> <<>>, errores |-> <<>>]

\* paused: whether the pause that ends a turn of the loop has run since the
\* last turn
IdleRun == [pc |-> "idle", locals |-> <<>>, pos |-> 0, verificados |-> <<>>,
            discrepancias |-> <<>>, errores |-> <<>>, paused |-> FALSE]

\* the pause between calls, in milliseconds
RateLimitDelay == 100

\* where a turn of the loop goes on: `continue` after an error of the lookup
\* by id starts the next turn, every other path reaches `await this._delay(100)`
AfterTurn(primary) == IF primary = "error" THEN "running" ELSE "delay"

\* _guardarReporte when writeFileSync succeeds: the file, then the history
\* entry in front, the history cut to its limit
GuardarReporte(st, resultado) ==
  [st EXCEPT !.files = [i \in DOMAIN @ \cup {resultado.id} |->
                          IF i = resultado.id THEN resultado ELSE @[i]],
             !.history = SubSeq(<<resultado.id>> \o @, 1,
                                IF Len(@) + 1 > HistoryLimit THEN HistoryLimit
                                                              ELSE Len(@) + 1)]

\* obtenerReporte
ObtenerReporte(st, reportId) ==
  IF reportId \in DOMAIN st.files THEN st.files[reportId] ELSE NoReport

\* reconciliacionCompleta / reconciliacionRapida up to the loop of
\* _reconciliar, for the local records selected
ReconStart(locals) ==
  /\ recon.pc = "idle"
  /\ reportStore.seq < MaxRuns
  /\ recon' = [IdleRun EXCEPT !.pc = "running", !.locals = locals]
  /\ lastCall' = Call("reconciliar", Len(locals))
  /\ ret' = FALSE
  /\ UNCHANGED <<now, coreVars, buffer, saveVars, auditVars, reportStore>>

\* one turn of the loop: the lookups have answered
ReconRecord(primary, fallback, biller) ==
  /\ recon.pc = "running"
  /\ recon.pos < Len(recon.locals)
  /\ LET i == recon.pos + 1
         local == recon.locals[i]
     IN  /\ primary = "skipped" <=> ~local.hasId
         /\ fallback # "skipped" <=> FallbackRuns(local, primary)
         /\ biller # NoRemote <=> Found(primary, fallback)
         /\ recon' = [ReconcileOne(recon, i, local, primary, fallback, biller)
                        EXCEPT !.pos = i, !.pc = AfterTurn(primary), !.paused = FALSE]
         /\ lastCall' = Call("record", [local |-> local, primary |-> primary,
                                        fallback |-> fallback, biller |-> biller])
  /\ ret' = FALSE
  /\ UNCHANGED <<now, coreVars, buffer, saveVars, auditVars, reportStore>>

\* await this._delay(100) at the end of a turn
ReconDelay ==
  /\ recon.pc = "delay"
  /\ recon' = [recon EXCEPT !.pc = "running", !.paused = TRUE]
  /\ lastCall' = Call("delay", RateLimitDelay)
  /\ ret' = FALSE
  /\ UNCHANGED <<now, coreVars, buffer, saveVars, auditVars, reportStore>>

\* the loop is over: resultado, _guardarReporte (whose writeFileSync
\* succeeds or throws into its catch block), and the report is returned
ReconFinish(written) ==
  /\ recon.pc = "running"
  /\ recon.pos = Len(recon.locals)
  /\ LET resultado == Resultado(recon, reportStore.seq + 1)
         st == [reportStore EXCEPT !.seq = @ + 1]
     IN  /\ reportStore' = IF written THEN GuardarReporte(st, resultado) ELSE st
         /\ ret' = resultado
  /\ recon' = IdleRun
  /\ lastCall' = Call("reconciliacionCompleta", written)
  /\ UNCHANGED <<now, coreVars, buffer, saveVars, auditVars>>

\* ---------------------------------------------------------------------
\* PDFSenderQueue
\* ---------------------------------------------------------------------

JobIds == 1..MaxJobs

\* the latest instant a retry timer can be due
MaxDue == MaxPdfTime + PdfRetryDelay * PdfMaxRetries

\* the job enqueue() builds; createdAt is left out, see cleanup
NewJob(id) ==
  [id |-> id, attempts |-> 0, status |-> "pending", nextRetry |-> NoTime]

\* constructor. sending: job id -> the _processNext invocations awaiting its
\* _sendPDF; immediates, timers: the _processNext calls that setImmediate and
\* setTimeout (by due time) hold; seq, retried: ids generated and jobs
\* restarted by retryJob; failedAttempts: history, job id -> sends that failed
\* since the job was enqueued or last restarted by retryJob, while it is queued
NewPdfQueue ==
  [queue |-> <<>>, processing |-> 0,
   sending |-> [i \in JobIds |-> 0],
   immediates |-> 0,
   timers |-> [d \in 0..MaxDue |-> 0],
   seq |-> 0, retried |-> 0,
   failedAttempts |-> [i \in JobIds |-> 0]]

PdfHas(q, id) == \E i \in 1..Len(q) : q[i].id = id
PdfIndex(q, id) == CHOOSE i \in 1..Len(q) : q[i].id = id

\* this.queue.find(j => j.status === 'pending'): its index, 0 when none
FirstPending(q) ==
  IF \E i \in 1..Len(q) : q[i].status = "pending"
    THEN CHOOSE i \in 1..Len(q) :
           /\ q[i].status = "pending"
           /\ \A j \in 1..(i - 1) : q[j].status # "pending"
    ELSE 0

ProcessNext_NoLimit(p) ==
  IF FirstPending(p.queue) = 0 THEN p
  ELSE LET i == FirstPending(p.queue)
       IN  [p EXCEPT !.queue[i].status = "processing",
                     !.processing = @ + 1,
                     !.sending[p.queue[i].id] = @ + 1]

\* _processNext up to `await this._sendPDF(job)`
ProcessNext(p) ==
  IF p.processing >= PdfConcurrency THEN p
  ELSE IF FirstPending(p.queue) = 0 THEN p
  ELSE LET i == FirstPending(p.queue)
       IN  [p EXCEPT !.queue[i].status = "processing",
                     !.processing = @ + 1,
                     !.sending[p.queue[i].id] = @ + 1]

\* _processNext after _sendPDF resolved, with its finally block
SendResolved(p, id) ==
  [p EXCEPT !.queue[PdfIndex(p.queue, id)].status = "completed",
            !.processing = @ - 1,
            !.sending[id] = @ - 1,
            !.immediates = @ + 1]

SendRejected_CountsFromOne(p, id, t) ==
  LET i == PdfIndex(p.queue, id)
      attempts == p.queue[i].attempts + 1
      p1 == [p EXCEPT !.processing = @ - 1,
                      !.sending[id] = @ - 1,
                      !.immediates = @ + 1,
                      !.failedAttempts[id] = @ + 1,
                      !.queue[i].attempts = attempts]
  IN  IF attempts + 1 < PdfMaxRetries
        THEN [p1 EXCEPT !.queue[i].status = "pending",
                        !.queue[i].nextRetry = t + PdfRetryDelay * attempts,
                        !.timers[t + PdfRetryDelay * attempts] = @ + 1]
        ELSE [p1 EXCEPT !.queue[i].status = "failed"]

\* _processNext after _sendPDF rejected: the catch block and the finally block
SendRejected(p, id, t) ==
  LET i == PdfIndex(p.queue, id)
      attempts == p.queue[i].attempts + 1
      p1 == [p EXCEPT !.processing = @ - 1,
                      !.sending[id] = @ - 1,
                      !.immediates = @ + 1,
                      !.failedAttempts[id] = @ + 1,
                      !.queue[i].attempts = attempts]
  IN  IF attempts < PdfMaxRetries
        THEN [p1 EXCEPT !.queue[i].status = "pending",
                        !.queue[i].nextRetry = t + PdfRetryDelay * attempts,
                        !.timers[t + PdfRetryDelay * attempts] = @ + 1]
        ELSE [p1 EXCEPT !.queue[i].status = "failed"]

\* retryJob: whether it finds the job, failed
RetryJobRet(p, id) ==
  \E i \in 1..Len(p.queue) : p.queue[i].id = id /\ p.queue[i].status = "failed"

\* retryJob
RetryJob(p, id) ==
  IF RetryJobRet(p, id)
    THEN LET i == CHOOSE i \in 1..Len(p.queue) :
                    p.queue[i].id = id /\ p.queue[i].status = "failed"
         IN  ProcessNext([p EXCEPT !.queue[i].status = "pending",
                                   !.queue[i].attempts = 0,
                                   !.failedAttempts[id] = 0])
    ELSE p

\* cleanup(maxAge) with maxAge = 0: every job was created at or before the
\* cutoff, so the jobs kept are the pending and the processing ones
PdfCleanupQueue(q) ==
  SelectSeq(q, LAMBDA job : job.status \in {"pending", "processing"})

\* jobs started so far: enqueued, or restarted by retryJob
PdfStarted(p) == p.seq + p.retried

\* enqueue(params)
PdfEnqueue ==
  /\ PdfStarted(pdf) < MaxJobs
  /\ pdf' = ProcessNext([pdf EXCEPT !.queue = Append(@, NewJob(pdf.seq + 1)),
                                    !.seq = @ + 1])
  /\ lastCall' = Call("enqueue", <<pdf.seq + 1>>)
  /\ ret' = TRUE
  /\ UNCHANGED <<now, nonPdfVars>>

\* the _sendPDF of a job resolves
PdfSendOk(id) ==
  /\ pdf.sending[id] > 0
  /\ pdf' = SendResolved(pdf, id)
  /\ lastCall' = Call("sent", <<id>>)
  /\ ret' = TRUE
  /\ UNCHANGED <<now, nonPdfVars>>

\* the _sendPDF of a job rejects
PdfSendFail(id) ==
  /\ pdf.sending[id] > 0
  /\ pdf' = SendRejected(pdf, id, now)
  /\ lastCall' = Call("sendFailed", <<id>>)
  /\ ret' = FALSE
  /\ UNCHANGED <<now, nonPdfVars>>

\* setImmediate(() => this._processNext()) runs its callback
PdfImmediate ==
  /\ pdf.immediates > 0
  /\ pdf' = ProcessNext([pdf EXCEPT !.immediates = @ - 1])
  /\ lastCall' = Call("setImmediate", <<>>)
  /\ ret' = FALSE
  /\ UNCHANGED <<now, nonPdfVars>>

\* setTimeout(() => this._processNext(), this.retryDelay * job.attempts)
\* runs its callback, once due
PdfTimer(due) ==
  /\ pdf.timers[due] > 0
  /\ now >= due
  /\ pdf' = ProcessNext([pdf EXCEPT !.timers[due] = @ - 1])
  /\ lastCall' = Call("setTimeout", <<due>>)
  /\ ret' = FALSE
  /\ UNCHANGED <<now, nonPdfVars>>

PdfRetryJob(id) ==
  /\ RetryJobRet(pdf, id) => PdfStarted(pdf) < MaxJobs
  /\ pdf' = [RetryJob(pdf, id) EXCEPT
               !.retried = IF RetryJobRet(pdf, id) THEN @ + 1 ELSE @]
  /\ lastCall' = Call("retryJob", <<id>>)
  /\ ret' = RetryJobRet(pdf, id)
  /\ UNCHANGED <<now, nonPdfVars>>

\* Date.now() moves on while the queue runs
PdfTick ==
  /\ now < MaxPdfTime
  /\ now' = now + 1
  /\ lastCall' = Call("none", <<>>)
  /\ ret' = FALSE
  /\ UNCHANGED <<pdf, nonPdfVars>>

PdfCleanup ==
  /\ pdf' = [pdf EXCEPT !.queue = PdfCleanupQueue(@),
                        !.failedAttempts =
                          [i \in JobIds |->
                             IF PdfHas(PdfCleanupQueue(pdf.queue), i) THEN @[i] ELSE 0]]
  /\ lastCall' = Call("cleanup", <<0>>)
  /\ ret' = FALSE
  /\ UNCHANGED <<now, nonPdfVars>>

\* ---------------------------------------------------------------------
\* Specifications
\* ---------------------------------------------------------------------
InitDedupe ==
  /\ inProgress = {}
  /\ processed = <<>>
  /\ admitted = {}
  /\ lastComplete = [k \in Keys |-> NoTime]

InitCommon ==
  /\ now = 0
  /\ lastCall = Call("none", <<>>)
  /\ ret = FALSE

InitCircuitHist ==
  /\ onlyFailures = TRUE
  /\ callLog = <<>>
  /\ openedAt = NoTime
  /\ halfOpenSuccesses = 0
  /\ executing = 0
  /\ probes = 0

InitCircuitIdle ==
  /\ circuit = NewCircuit(1, 1, CircuitTimeout, 1, WindowDuration)
  /\ InitCircuitHist

\* server.js after start-up, with no comprobantes file yet
InitServer ==
  /\ storeFile = {}
  /\ comprobanteStore = StoreLoad({})
  /\ webhookQueue = [pending |-> <<>>, running |-> {}]
  /\ task = [p \in Procs |-> NoTask]
  /\ emitidos = [d \in Docs |-> 0]
  /\ billerCircuit = [state |-> CB_STATE.CLOSED, failures |-> 0]
  /\ emitidosAlCrash = {}
  /\ errors = <<>>
  /\ buffer = <<>>
  /\ cache = <<>>
  /\ fetching = [c \in Callers |-> NoKey]
  /\ errorSeq = 0
  /\ files = [main |-> NoFile, tmp |-> NoFile]
  /\ persist = NewStore(NoFile)
  /\ audit = [currentFile |-> NoName, entriesInCurrentFile |-> 0, seq |-> 0]
  /\ auditFiles = <<>>
  /\ recon = IdleRun
  /\ reportStore = [files |-> <<>>, history |-> <<>>, seq |-> 0]
  /\ pdf = NewPdfQueue

\* The dedup gate under any sequence of calls
InitSpecDedupe == InitCommon /\ InitDedupe /\ InitCircuitIdle /\ InitServer

NextDedupe ==
  \/ \E e \in Events : DTryAcquire(e[1], e[2])
  \/ \E e \in Events : DComplete(e[1], e[2])
  \/ \E e \in Events : DRelease(e[1], e[2])
  \/ DCleanup
  \/ Tick

SpecDedupe == InitSpecDedupe /\ [][NextDedupe]_vars

\* A breaker constructed with any thresholds, under any sequence of calls
InitSpecCircuit ==
  /\ InitCommon
  /\ InitDedupe
  /\ \E F \in 1..MaxThreshold, S \in 0..MaxSuccessThreshold, V \in 0..MaxThreshold :
        circuit = NewCircuit(F, S, CircuitTimeout, V, WindowDuration)
  /\ InitCircuitHist
  /\ InitServer

NextCircuit ==
  \/ CbCanExecute
  \/ CbRecordSuccess
  \/ CbRecordFailure
  \/ \E s \in CircuitStates : CbForceState(s)
  \/ CbReset
  \/ CbCleanupMetrics
  \/ Tick

SpecCircuit == InitSpecCircuit /\ [][NextCircuit]_vars

\* A breaker constructed with any thresholds, every call going through
\* execute()
NextExecute ==
  \/ ExecuteRejected
  \/ ExecuteAdmitted
  \/ \E ok \in BOOLEAN, probe \in BOOLEAN : ExecuteSettle(ok, probe)
  \/ CbCleanupMetrics
  \/ Tick

SpecExecute == InitSpecCircuit /\ [][NextExecute]_vars

\* The server: webhook deliveries, manual invoicing, the queue and the
\* dedup sweep; no crash, so what is on disk is never read
Init == InitCommon /\ InitDedupe /\ InitCircuitIdle /\ InitServer

PipelineSteps ==
  \/ \E e \in Events, pl \in Payloads : WebhookDelivery(e[1], e[2], pl)
  \/ \E p \in Procs : EmitOk(p)
  \/ \E p \in Procs, r \in BOOLEAN : EmitFail(p, r)
  \/ \E p \in Procs : MarcarDone(p)
  \/ \E p \in Keys, oc \in {"found", "notfound", "error"} : LookupDone(p, oc)
  \/ \E k \in Keys : TaskTimeout(k)

Next ==
  \/ PipelineSteps
  \/ Sweep
  \/ Tick
  \/ \E o \in ManualOrders, pl \in Payloads : ManualFacturar(o, pl)

Spec == Init /\ [][Next]_vars

\* The server with crashes and restarts, webhook deliveries only, at one
\* instant: a restart empties the dedup gate, so its window plays no part
NextCrash ==
  \/ PipelineSteps
  \/ AutoSave
  \/ CrashRestart

SpecCrash == Init /\ [][NextCrash]_vars

\* The lookup cache under any sequence of calls
NextCache ==
  \/ \E k \in CacheKeys : Get(k)
  \/ \E k \in CacheKeys, v \in Values, ttl \in 0..(DefaultTtl - 1) : Set(k, v, ttl)
  \/ \E k \in CacheKeys : Invalidate(k)
  \/ \E type \in CacheTypes : InvalidateType(type)
  \/ CacheCleanupTimer
  \/ \E k \in CacheKeys : GetOrFetch(1, k)
  \/ \E v \in Values \cup {Null}, ttl \in 0..(DefaultTtl - 1) : FetchResolve(1, v, ttl)
  \/ FetchThrow(1)
  \/ Tick

SpecCache == Init /\ [][NextCache]_vars

\* The cache under overlapping getOrFetch calls of two callers
NextFlight ==
  \/ \E c \in Callers, k \in CacheKeys : GetOrFetch(c, k)
  \/ \E c \in Callers, v \in Values \cup {Null} : FetchResolve(c, v, 0)
  \/ \E c \in Callers : FetchThrow(c)
  \/ \E k \in CacheKeys : Invalidate(k)
  \/ Tick

SpecFlight == Init /\ [][NextFlight]_vars

\* The error store under any sequence of recordError and resolveError
NextErrors ==
  \/ \E o \in Orders : RecordError(o, ServerError)
  \/ \E id \in 1..MaxRecorded : ResolveError(id)
  \/ Tick

SpecErrors == Init /\ [][NextErrors]_vars

\* A file-backed store that is written to, saved and killed at any step
NextSave ==
  \/ \E e \in Entries : StorePut(e)
  \/ SaveOpen
  \/ SaveWrite
  \/ SaveWriteThrows
  \/ SaveRename
  \/ StoreCrashRestart

SpecSave == Init /\ [][NextSave]_vars

\* The audit logger: entries logged, flushed, and the process restarted
NextAudit ==
  \/ \E o \in Orders : AuditLog(o)
  \/ AuditFlush
  \/ \E truncated \in BOOLEAN : AuditFlushThrows(truncated)
  \/ \E midWrite \in BOOLEAN : AuditRestart(midWrite)
  \/ Tick

SpecAudit == Init /\ [][NextAudit]_vars

\* the clock of a process that runs for days
DayTick ==
  /\ Day(now + 1) <= MaxDays
  /\ now' = now + 1
  /\ lastCall' = Call("none", <<>>)
  /\ ret' = FALSE
  /\ UNCHANGED <<coreVars, buffer, restVars>>

\* One AuditLogger that is never restarted: log and the flush timer, the
\* only timer the constructor starts; time passes and the timer fires
NextRetention ==
  \/ \E o \in Orders : AuditLog(o)
  \/ AuditFlush
  \/ DayTick

SpecRetention ==
  /\ Init /\ [][NextRetention]_vars
  /\ WF_<<now, buffer, auditVars>>(DayTick)
  /\ WF_<<now, buffer, auditVars>>(AuditFlush)

\* the lists of local records a run can be given
RECURSIVE LocalLists(_)
LocalLists(n) ==
  IF n = 0 THEN {<<>>}
  ELSE LocalLists(n - 1) \cup
       {Append(l, r) : l \in {x \in LocalLists(n - 1) : Len(x) = n - 1}, r \in LocalRecords}

ReconSteps ==
  \/ \E primary \in PrimaryOutcomes, fallback \in FallbackOutcomes,
        biller \in RemoteRecords \cup {NoRemote} : ReconRecord(primary, fallback, biller)
  \/ ReconDelay
  \/ \E written \in BOOLEAN : ReconFinish(written)

\* One reconciliation run over any list of local records
NextRecon ==
  \/ \E locals \in LocalLists(MaxLocal) : reportStore.seq = 0 /\ ReconStart(locals)
  \/ ReconSteps

SpecRecon == Init /\ [][NextRecon]_vars

\* Successive reconciliation runs
NextReports ==
  \/ \E locals \in LocalLists(1) : ReconStart(locals)
  \/ ReconSteps

SpecReports == Init /\ [][NextReports]_vars

\* The PDF sender queue under enqueue, retryJob, cleanup, the outcomes of
\* the sends and the callbacks of its timers
NextPdf ==
  \/ PdfEnqueue
  \/ \E id \in JobIds : PdfSendOk(id)
  \/ \E id \in JobIds : PdfSendFail(id)
  \/ PdfImmediate
  \/ \E due \in 0..MaxDue : PdfTimer(due)
  \/ \E id \in JobIds : PdfRetryJob(id)
  \/ PdfCleanup
  \/ PdfTick

SpecPdf == Init /\ [][NextPdf]_vars

\* The same queue under the scheduling Node gives it: a callback handed to
\* setImmediate is run, and (the proviso of the termination property) every
\* send attempt terminates, resolved or rejected.
SpecPdfFair ==
  /\ Init /\ [][NextPdf]_vars
  /\ WF_<<now, pdf>>(PdfImmediate)
  /\ \A id \in JobIds : WF_<<now, pdf>>(PdfSendOk(id) \/ PdfSendFail(id))

\* recordError on every kind of error
NextClassify == \E o \in Orders, e \in Errors : RecordError(o, e)

SpecClassify == Init /\ [][NextClassify]_vars

\* ---------------------------------------------------------------------
\* Properties
\* ---------------------------------------------------------------------
OrderDocs == {StoreKey(OrderId(e[2])) : e \in {x \in Events : x[1] = "orders/paid"}}

\* C1: for every order, under every interleaving of orders/paid deliveries
\* and manual invoicing requests, emitirComprobante completes successfully
\* at most once.
C1_AtMostOneEmission == \A d \in OrderDocs : emitidos[d] <= 1

\* C2: a document emitted for an order before a crash and restart is not
\* emitted a second time when the orders/paid event is delivered again.
C2_NoReemissionAfterRestart ==
  \A d \in OrderDocs : d \in emitidosAlCrash => emitidos[d] <= 1

\* C3: no key is both in the in-flight set and in the recently-completed
\* map, after any sequence of tryAcquire, complete, release and cleanup.
C3_NeverInFlightAndCompleted == inProgress \cap DOMAIN processed = {}

C3_Witness ==
  /\ lastCall.op = "complete"
  /\ lastCall.arg \in DOMAIN processed
  /\ lastCall.arg \notin inProgress
  /\ inProgress # {}

\* C4: between a tryAcquire(key) that returned true and the next
\* complete(key) or release(key), every further tryAcquire(key) returns
\* false and admits nothing.
C4_SecondAcquireRejected ==
  [][\A k \in Keys :
       (k \in admitted /\ lastCall' = Call("tryAcquire", k))
         => (ret' = FALSE /\ inProgress' = inProgress /\ admitted' = admitted)]_vars

C4_Witness ==
  /\ lastCall.op = "tryAcquire"
  /\ ret = FALSE
  /\ lastCall.arg \in admitted
  /\ lastCall.arg \notin DOMAIN processed

\* C5: after complete(key) at time t, tryAcquire(key) returns false at every
\* time in [t, t + windowMs) and true at any time from t + windowMs on, the
\* key not being in flight.
C5_DedupWindow ==
  \A k \in Keys :
    lastComplete[k] # NoTime =>
      IF now < lastComplete[k] + WindowMs
        THEN ~TryAcquireRet(inProgress, processed, k)
        ELSE k \notin inProgress => TryAcquireRet(inProgress, processed, k)

\* C6: every key admitted by tryAcquire in the webhook handler leaves the
\* in-flight set when its processing ends in failure, a rejected enqueue
\* included: no key stays in flight without a task that will end it.
C6_InFlightKeyHasTask == \A k \in inProgress : task[k].pc # "none"

\* a step in which the webhook task of k ends by throwing
TaskFailedStep(k) ==
  /\ task[k].pc # "none"
  /\ task'[k].pc = "none"
  /\ k \notin DOMAIN processed'

\* C7: every webhook task that ends in terminal failure leaves one record in
\* the Error Store and one entry in the Audit Log for its event.
C7_FailureIsRecorded ==
  [][\A k \in Keys :
       TaskFailedStep(k) =>
         /\ \E i \in 1..Len(errors') :
              /\ errors'[i].context = k[2]
              /\ \A j \in 1..Len(errors) : errors[j].id # errors'[i].id
         /\ Len(buffer') = Len(buffer) + 1]_vars

\* a step in which a request of emitirComprobante is answered by an error
RequestFailedStep(p) ==
  /\ task[p].pc = "emit"
  /\ \/ task'[p].attempt = task[p].attempt + 1
     \/ task'[p].pc = "none" /\ p \notin DOMAIN processed'

\* C8: every request to Biller made while processing an order or refund
\* passes through the circuit breaker, which so counts each failed request.
C8_RequestsPassThroughBreaker ==
  [][\A p \in Procs : RequestFailedStep(p) => billerCircuit' # billerCircuit]_vars

\* a step that is a recordFailure
RecordFailureStep == circuit'.metrics.failedCalls = circuit.metrics.failedCalls + 1

\* the calls recorded up to now whose timestamp lies in the trailing window
CallsInTrailingWindow(log, t, w) ==
  Cardinality({i \in 1..Len(log) : log[i].timestamp > t - w})

\* C9: a recordFailure in state CLOSED opens the breaker exactly when the
\* failure counter has reached failureThreshold and the calls recorded in
\* the trailing metrics window have reached volumeThreshold.
C9_OpensOnThresholdAndVolume ==
  [][(RecordFailureStep /\ circuit.state = CB_STATE.CLOSED) =>
       ((circuit'.state = CB_STATE.OPEN) <=>
          (/\ circuit'.failures >= circuit.failureThreshold
           /\ CallsInTrailingWindow(callLog', now, circuit.windowDuration)
                >= circuit.volumeThreshold))]_vars

C9_Witness ==
  /\ onlyFailures
  /\ circuit.state = CB_STATE.OPEN
  /\ circuit.failures > circuit.failureThreshold
  /\ circuit.nextAttemptTime = circuit.lastFailureTime + circuit.timeout

\* the breaker has seen nothing but n recordFailure calls since it was built
FreshFailures(n) == onlyFailures /\ Len(callLog) = n

VolumeAtLastCall ==
  CallsInTrailingWindow(callLog, callLog[Len(callLog)].timestamp,
                        circuit.windowDuration)

C11_OpenUntilTimeout ==
  circuit.state = CB_STATE.OPEN =>
    IF now < openedAt + circuit.timeout
      THEN /\ ~CanExecuteRet(circuit, now)
           /\ CanExecute(circuit, now).state = CB_STATE.OPEN
      ELSE /\ CanExecuteRet(circuit, now)
           /\ CanExecute(circuit, now).state = CB_STATE.HALF_OPEN

C11_Witness ==
  /\ circuit.state = CB_STATE.OPEN
  /\ openedAt # NoTime
  /\ now >= openedAt + circuit.timeout
  /\ Len(callLog) > 0

\* a step that is a recordSuccess
RecordSuccessStep ==
  circuit'.metrics.successfulCalls = circuit.metrics.successfulCalls + 1

\* C12: once the breaker has entered HALF_OPEN, by timeout expiry or by
\* forceState, a recordSuccess closes it exactly when it is the
\* successThreshold-th success recorded since it entered HALF_OPEN.
C12_ClosesOnThresholdSuccess ==
  [][(RecordSuccessStep /\ circuit.state = CB_STATE.HALF_OPEN) =>
       ((circuit'.state = CB_STATE.CLOSED) <=>
          (halfOpenSuccesses + 1 >= circuit.successThreshold))]_vars

\* C13: a recordFailure while HALF_OPEN moves the breaker to OPEN, and
\* canExecute() then returns false until `timeout` has elapsed since that
\* failure.
C13_HalfOpenFailureReopens ==
  [][(RecordFailureStep /\ circuit.state = CB_STATE.HALF_OPEN) =>
       /\ circuit'.state = CB_STATE.OPEN
       /\ \A t \in now..(now + circuit.timeout) :
            CanExecuteRet(circuit', t) <=> (t >= now + circuit.timeout)]_vars

C13_Witness ==
  /\ circuit.state = CB_STATE.OPEN
  /\ Len(callLog) > 0
  /\ ~callLog[Len(callLog)].success
  /\ callLog[Len(callLog)].timestamp = openedAt
  /\ circuit.failures < circuit.failureThreshold
  /\ ~CanExecuteRet(circuit, now)

\* C14: a recordSuccess while the breaker is CLOSED sets the failure counter
\* to zero, whatever its previous value, and leaves the breaker CLOSED.
C14_SuccessResetsFailures ==
  [][(RecordSuccessStep /\ circuit.state = CB_STATE.CLOSED) =>
       (circuit'.failures = 0 /\ circuit'.state = CB_STATE.CLOSED)]_vars

C14_Witness ==
  /\ circuit.state = CB_STATE.CLOSED
  /\ circuit.failures = 0
  /\ Len(callLog) = 2
  /\ ~callLog[1].success
  /\ callLog[2].success
  /\ circuit.metrics.failedCalls = 1
  /\ circuit.failureThreshold = 2

\* C15: execute(fn) called while the breaker is OPEN and the timeout has not
\* elapsed does not invoke fn, adds exactly one to rejectedCalls and leaves
\* every other field of the breaker unchanged.
C15_RejectionOnlyCountsRejection ==
  [][(/\ lastCall' = Call("execute", <<>>)
      /\ circuit.state = CB_STATE.OPEN
      /\ now < openedAt + circuit.timeout) =>
       /\ ret' = FALSE
       /\ executing' = executing
       /\ circuit' = [circuit EXCEPT !.metrics.rejectedCalls = @ + 1]]_vars

C15_Witness ==
  /\ lastCall.op = "execute"
  /\ ret = FALSE
  /\ circuit.state = CB_STATE.OPEN
  /\ circuit.metrics.rejectedCalls = 1
  /\ circuit.failures > 0

\* C16: while the breaker is HALF_OPEN only a limited number of probe calls
\* pass: with MaxExecuting probes of this HALF_OPEN phase still running,
\* canExecute() refuses the next caller.
C16_HalfOpenLimitsProbes ==
  (circuit.state = CB_STATE.HALF_OPEN /\ probes >= MaxExecuting)
    => ~CanExecuteRet(circuit, now)

\* ---------------------------------------------------------------------
\* Lookup cache
\* ---------------------------------------------------------------------

\* the time-to-live set() gives an entry: customTtl || this.ttl
EffectiveTtl(customTtl) == IF customTtl = 0 THEN DefaultTtl ELSE customTtl

\* C17: an entry set with time-to-live T is returned by get at any time up
\* to its expiry; a get after its expiry returns null and removes the entry.
\* Checked at every set (for every later instant at which get could run on
\* the cache that set leaves) and at every get that finds an entry.
C17_EntryLivesUntilExpiry ==
  [][/\ lastCall'.op = "set" =>
          LET k == lastCall'.arg[1]
              v == lastCall'.arg[2]
              T == lastCall'.arg[3]
          IN  \A t \in now..(now + DefaultTtl + 1) :
                IF t <= now + EffectiveTtl(T)
                  THEN /\ CacheGetRet(cache', k, t) = v
                       /\ CacheHas(CacheGet(cache', k, t), k)
                  ELSE /\ CacheGetRet(cache', k, t) = Null
                       /\ ~CacheHas(CacheGet(cache', k, t), k)
     /\ lastCall'.op = "get" /\ CacheHas(cache, lastCall'.arg) =>
          LET k == lastCall'.arg
              e == cache[CacheIndex(cache, k)]
          IN  IF now <= e.expiresAt
                THEN /\ ret' = e.value
                     /\ CacheHas(cache', k)
                ELSE /\ ret' = Null
                     /\ ~CacheHas(cache', k)
                     /\ Len(cache') = Len(cache) - 1]_vars

\* a get that hits at the very instant of expiry
C17_Witness ==
  /\ lastCall.op = "get"
  /\ ret \in Values
  /\ CacheHas(cache, lastCall.arg)
  /\ cache[CacheIndex(cache, lastCall.arg)].expiresAt = now
  /\ cache[CacheIndex(cache, lastCall.arg)].lastAccess = now

\* C18: after any sequence of set, get, getOrFetch, invalidate,
\* invalidateType and cleanup, the cache never holds more than maxSize entries
C18_SizeBounded == Len(cache) <= CacheMaxSize

\* a set on a full cache that evicted an entry to make room
C18_Witness ==
  /\ lastCall.op = "set"
  /\ ret \in CacheKeys
  /\ ~CacheHas(cache, ret)
  /\ Len(cache) = CacheMaxSize

\* a getOrFetch step that misses and so invokes fetchFn
FetchStartStep(k) ==
  /\ lastCall' = Call("getOrFetch", k)
  /\ \E c \in Callers : fetching[c] = NoKey /\ fetching'[c] = k

\* a step in which the fetchFn of a getOrFetch for k throws
FetchThrowStep(k) ==
  /\ lastCall' = Call("fetchThrow", k)
  /\ \E c \in Callers : fetching[c] = k

\* C19 as stated: a getOrFetch whose fetchFn throws leaves the cache content
\* unchanged, from its entry to the throw
C19_FailedFetchLeavesCacheUnchanged ==
  [][\A k \in CacheKeys : FetchStartStep(k) \/ FetchThrowStep(k) => cache' = cache]_vars

\* C19, amended: when fetchFn throws inside getOrFetch the error goes to the
\* caller, nothing is stored for the key, the cache is as it was when fetchFn
\* was invoked, and the next getOrFetch for the key invokes fetchFn again;
\* before invoking fetchFn the call removes at most an expired entry of the key
C19_FetchErrorNotCached ==
  [][\A k \in CacheKeys :
      /\ FetchStartStep(k) =>
            /\ cache' = CacheDelete(cache, k)
            /\ CacheHas(cache, k) => now > cache[CacheIndex(cache, k)].expiresAt
      /\ FetchThrowStep(k) =>
            /\ ret' = "error"
            /\ cache' = cache
            /\ \A i \in 1..Len(cache') : cache'[i].value \in Values
            /\ \A c \in Callers : fetching'[c] = NoKey
            /\ ~CacheHas(cache, k) => CacheGetRet(cache', k, now') = Null]_vars

\* fetchFn threw for a key the cache does not hold and the cache holds
\* other entries
C19_Witness ==
  /\ lastCall.op = "fetchThrow"
  /\ ret = "error"
  /\ ~CacheHas(cache, lastCall.arg)
  /\ cache # <<>>
  /\ fetching[1] = NoKey

\* ---------------------------------------------------------------------
\* Error store
\* ---------------------------------------------------------------------

ErrorIds(errs) == {errs[i].id : i \in 1..Len(errs)}
UnresolvedIds(errs) == {errs[i].id : i \in {j \in 1..Len(errs) : ~errs[j].resolved}}

\* C20: when the store exceeds its maximum entry count, cleanup removes only
\* resolved entries: every unresolved entry present before a recordError,
\* and the entry it records, is present after it, whatever the numbers of
\* resolved and unresolved entries
C20_UnresolvedSurviveCleanup ==
  [][lastCall'.op = "recordError" =>
       (UnresolvedIds(errors) \cup {ret'}) \subseteq ErrorIds(errors')]_vars

IsNetworkError(error) == error.code \in NetworkCodes
IsRetryableStatus(error) == error.status >= 500 \/ error.status = 429
IsOther4xx(error) == error.status >= 400 /\ error.status < 500 /\ error.status # 429
IsExplicitCode(error) ==
  error.code \in {"VALIDATION_ERROR", "DUPLICATE", "INVALID_TOKEN", "UNAUTHORIZED",
                  "FORBIDDEN"}

\* C21 as stated: the retryable flag of a recorded error is true when the
\* error is a network error or has status >= 500 or 429, and false when it
\* has any other 4xx status or an explicit validation, duplicate or
\* authorization code
C21_RetryableByClass ==
  [][lastCall'.op = "recordError" =>
       LET error == lastCall'.arg[2]
       IN  \A i \in 1..Len(errors') : errors'[i].id = ret' =>
             /\ IsNetworkError(error) \/ IsRetryableStatus(error) => errors'[i].retryable
             /\ IsOther4xx(error) \/ IsExplicitCode(error) => ~errors'[i].retryable]_vars

\* C21, amended: the code decides before the status. The flag is false for
\* an explicit code (NOT_FOUND among them) whatever the status; otherwise
\* true for a network code whatever the status; otherwise true for status
\* >= 500 or 429, false for any other 4xx status, and true without a status
C21_RetryableByCodeThenStatus ==
  [][lastCall'.op = "recordError" =>
       LET error == lastCall'.arg[2]
       IN  \A i \in 1..Len(errors') : errors'[i].id = ret' =>
             /\ IsExplicitCode(error) \/ error.code = "NOT_FOUND" => ~errors'[i].retryable
             /\ ~(IsExplicitCode(error) \/ error.code = "NOT_FOUND") =>
                  /\ IsNetworkError(error) => errors'[i].retryable
                  /\ ~IsNetworkError(error) =>
                       /\ IsRetryableStatus(error) => errors'[i].retryable
                       /\ IsOther4xx(error) => ~errors'[i].retryable
                       /\ error.status < 400 => errors'[i].retryable]_vars

\* a rate-limited request (status 429, no explicit code) recorded as retryable
C21_Witness ==
  /\ lastCall.op = "recordError"
  /\ lastCall.arg[2] = [code |-> "UNKNOWN_ERROR", status |-> 429]
  /\ \E i \in 1..Len(errors) : errors[i].id = ret /\ errors[i].retryable

\* ---------------------------------------------------------------------
\* Persistence
\* ---------------------------------------------------------------------

\* C22: a crash at any step of save() leaves the store file holding the
\* complete previous content or the complete new content, never a partial
\* one, and load() after the restart succeeds
C22_SaveIsAtomic ==
  [][/\ files'.main # Partial
     /\ files'.main \in {files.main, Json(persist.data)}
     /\ lastCall'.op = "restart" =>
          /\ ret'
          /\ persist'.loaded
          /\ files.main # NoFile => Json(persist'.data) = files.main]_vars

\* the process died in the middle of the temp write and the restarted store
\* loaded the content of the save before
C22_Witness ==
  /\ lastCall = Call("restart", "writing")
  /\ files.tmp = Partial
  /\ files.main.kind = "json"
  /\ persist.loaded
  /\ persist.data = files.main.data
  /\ persist.data # {}

\* ---------------------------------------------------------------------
\* Audit trail
\* ---------------------------------------------------------------------

\* every entry that a flush wrote and that is still on disk
FlushedEntries == UNION {EntriesOf(auditFiles, name) : name \in DOMAIN auditFiles}

\* C23: query(from, to, filters) returns every flushed entry whose timestamp
\* lies in [from, to] and matches the filters, and no other entry
C23_QueryReturnsRange ==
  \A desde \in 0..MaxTime, hasta \in 0..MaxTime, orderId \in {NoFilter} \cup Orders :
    desde <= hasta =>
      Query(auditFiles, desde, hasta, orderId)
        = {e \in FlushedEntries :
             e.timestamp >= desde /\ e.timestamp <= hasta /\ Matches(e, orderId)}

IsPrefix(s, t) == Len(s) <= Len(t) /\ SubSeq(t, 1, Len(s)) = s

\* C24: an entry flushed to a file is never changed or removed afterwards
\* except by the retention-based deletion of its file: every step, and so
\* every flush, leaves the entries of each file as a prefix of its new
\* content
C24_FlushedEntriesStay ==
  [][\A name \in DOMAIN auditFiles :
       \/ /\ name \notin DOMAIN auditFiles'
          /\ lastCall'.op = "restart"
          /\ FileDate(name) < Day(now) - RetentionDays
       \/ /\ name \in DOMAIN auditFiles'
          /\ IsPrefix(ReadFile(auditFiles, name), ReadFile(auditFiles', name))]_vars

\* ---------------------------------------------------------------------
\* Reconciliation
\* ---------------------------------------------------------------------

\* a turn of the reconciliation loop, and what it was given
RecordStep == lastCall'.op = "record" /\ recon'.pos = recon.pos + 1
Given == lastCall'.arg

Last(seq) == seq[Len(seq)]

\* the turn added one discrepancy of the given type and severity, for the
\* record of the turn, and nothing else
AddsDiscrepancy(tipo, severity) ==
  /\ recon'.discrepancias =
       Append(recon.discrepancias, [tipo |-> tipo, severity |-> severity,
                                    local |-> recon'.pos])
  /\ recon'.verificados = recon.verificados
  /\ recon'.errores = recon.errores

AddsVerified ==
  /\ recon'.verificados = Append(recon.verificados, [local |-> recon'.pos])
  /\ recon'.discrepancias = recon.discrepancias
  /\ recon'.errores = recon.errores

AddsError ==
  /\ Len(recon'.errores) = Len(recon.errores) + 1
  /\ Last(recon'.errores).comprobante = recon'.pos
  /\ recon'.discrepancias = recon.discrepancias
  /\ recon'.verificados = recon.verificados

\* C25: for a local record for which neither the lookup by id nor the
\* fallback lookup by internal number finds a remote record, the report
\* holds exactly one discrepancy missing-remotely of severity CRITICAL for
\* it, and the record is not counted as verified
C25_MissingIsCritical ==
  [][RecordStep /\ Given.primary \in {"skipped", "not_found"}
                /\ Given.fallback \in {"skipped", "none"} =>
       AddsDiscrepancy(DISCREPANCY_TYPES.MISSING_IN_BILLER, SEVERITY.CRITICAL)]_vars

\* a record not found by id (404) nor by internal number, reported missing
C25_Witness ==
  /\ lastCall.op = "record"
  /\ lastCall.arg.primary = "not_found"
  /\ lastCall.arg.fallback = "none"
  /\ recon.discrepancias # <<>>
  /\ Last(recon.discrepancias) =
       [tipo |-> DISCREPANCY_TYPES.MISSING_IN_BILLER, severity |-> SEVERITY.CRITICAL,
        local |-> recon.pos]

\* the fields of the local record that differ from the remote record
Differing(local, biller) ==
  {f \in {"tipo_comprobante", "serie", "cae_numero"} : local[f] # biller[f]}
  \cup (IF JsString(local.numero) # JsString(biller.numero) THEN {"numero"} ELSE {})

\* C26: when a remote record is found and any of type, series, number or
\* CAE differs from the local record, the record is a data-mismatch
\* discrepancy of severity MEDIUM; it is verified only when all four agree
C26_AnyDifferenceIsMismatch ==
  [][RecordStep /\ Found(Given.primary, Given.fallback) =>
       IF Differing(Given.local, Given.biller) # {}
         THEN AddsDiscrepancy(DISCREPANCY_TYPES.DATA_MISMATCH, SEVERITY.MEDIUM)
         ELSE AddsVerified]_vars

\* C27: when a remote lookup fails with an error other than not-found, on
\* the lookup by id or on the fallback lookup, the record is counted under
\* errors and does not appear among the discrepancies
C27_LookupErrorIsError ==
  [][RecordStep /\ (Given.primary = "error" \/ Given.fallback = "error") =>
       AddsError]_vars

\* C28: every selected local record is counted in exactly one of verified,
\* discrepancies and errors: during the run each record handled so far is
\* in exactly one list, and in the report total = verified + discrepancies
\* + errors = the number of records selected
C28_EachRecordCountedOnce ==
  [][/\ recon'.pc = "running" =>
          \A i \in 1..recon'.pos :
            Cardinality({j \in 1..Len(recon'.verificados) : recon'.verificados[j].local = i})
            + Cardinality({j \in 1..Len(recon'.discrepancias) : recon'.discrepancias[j].local = i})
            + Cardinality({j \in 1..Len(recon'.errores) : recon'.errores[j].comprobante = i})
            = 1
     /\ lastCall'.op = "reconciliacionCompleta" /\ recon.pc = "running" =>
          /\ ret'.resumen.total = Len(recon.locals)
          /\ ret'.resumen.total = ret'.resumen.verificados
                                  + ret'.resumen.discrepancias + ret'.resumen.errores]_vars

\* the report of two local records of which one has no remote match
C28_Witness ==
  /\ lastCall.op = "reconciliacionCompleta"
  /\ ret.resumen = [total |-> 2, verificados |-> 1, discrepancias |-> 1, errores |-> 0]
  /\ ret.discrepancias[1].tipo = DISCREPANCY_TYPES.MISSING_IN_BILLER
  /\ ret.discrepancias[1].severity = SEVERITY.CRITICAL

\* C29: after a run returns a report with id R the report is persisted:
\* obtenerReporte(R) returns it, and the run is the first element of the
\* history
C29_ReportIsPersisted ==
  [][lastCall'.op = "reconciliacionCompleta" /\ recon.pc = "running" =>
       /\ ObtenerReporte(reportStore', ret'.id) = ret'
       /\ reportStore'.history # <<>>
       /\ reportStore'.history[1] = ret'.id]_vars

\* ---------------------------------------------------------------------
\* Task queue
\* ---------------------------------------------------------------------

\* the webhook tasks whose function is executing: started and not yet
\* returned or thrown
Executing == {p \in Procs : IsWebhook(p) /\ task[p].pc \in {"emit", "marcar", "lookup"}}

Pending(q) == {q.pending[i] : i \in 1..Len(q.pending)}

KeysOf(c) == {c[i].key : i \in 1..Len(c)}

\* C31: a set of a new key into a cache that holds maxSize entries evicts
\* exactly one entry, one whose last-access timestamp no other entry's
\* precedes, and leaves the others as they were; a set that overwrites an
\* existing key evicts nothing. The set that getOrFetch makes on a fetched
\* value is included.
C31_EvictsLeastRecentlyUsed ==
  [][lastCall'.op \in {"set", "fetchResolve"} /\ cache' # cache =>
       LET k == IF lastCall'.op = "set" THEN lastCall'.arg[1] ELSE lastCall'.arg
           gone == KeysOf(cache) \ KeysOf(cache')
       IN  /\ CacheHas(cache', k)
           /\ \A j \in KeysOf(cache') \ {k} :
                /\ CacheHas(cache, j)
                /\ cache'[CacheIndex(cache', j)] = cache[CacheIndex(cache, j)]
           /\ IF Len(cache) = CacheMaxSize /\ ~CacheHas(cache, k)
                THEN /\ Cardinality(gone) = 1
                     /\ \A g \in gone : \A i \in 1..Len(cache) :
                          cache[CacheIndex(cache, g)].lastAccess <= cache[i].lastAccess
                ELSE gone = {}]_vars

\* a set on a full cache that evicted the entry inserted last, the entry
\* inserted before it having been read since
C31_Witness ==
  /\ lastCall.op = "set"
  /\ ret \in CacheKeys
  /\ ~CacheHas(cache, ret)
  /\ Len(cache) = CacheMaxSize
  /\ cache[1].key # lastCall.arg[1]
  /\ cache[1].lastAccess < now

\* C32: getOrFetch is not single-flight. A getOrFetch for a key that is
\* missing, made while the fetchFn of another getOrFetch for the same key has
\* not completed, invokes fetchFn itself, and the fetch under way goes on.
C32_NotSingleFlight ==
  [][\A k \in CacheKeys :
       /\ lastCall' = Call("getOrFetch", k)
       /\ CacheGetRet(cache, k, now) = Null
       /\ \E c \in Callers : fetching[c] = k
       => /\ ret' = Null
          /\ \E c \in Callers :
               /\ fetching[c] = NoKey
               /\ fetching' = [fetching EXCEPT ![c] = k]]_vars

\* two fetches of two getOrFetch calls for one key under way at once
C32_Witness ==
  /\ lastCall.op = "getOrFetch"
  /\ \A c \in Callers : fetching[c] = lastCall.arg
  /\ ~CacheHas(cache, lastCall.arg)

\* C33: between the remote lookups of two consecutive records of a run the
\* fixed pause elapses, whatever the outcome of the first record's lookups
C33_PauseBetweenRecords ==
  [][lastCall'.op = "record" /\ recon.pos >= 1 => recon.paused]_vars

\* the names an audit file can have
FileNames == {FileName(t) : t \in 0..((MaxDays + 1) * DayLength)}

\* C34: an audit file whose date falls out of the retention period while the
\* process runs is eventually deleted, without a restart
C34_ExpiredFileEventuallyDeleted ==
  \A name \in FileNames :
    (name \in DOMAIN auditFiles /\ FileDate(name) < Day(now) - RetentionDays)
      ~> (name \notin DOMAIN auditFiles)

C36_OpenLeftOnlyByTimeoutOrAdmin ==
  [][circuit.state = CB_STATE.OPEN =>
       /\ (RecordSuccessStep \/ RecordFailureStep) =>
            /\ circuit'.state = CB_STATE.OPEN
            /\ circuit'.nextAttemptTime = circuit.nextAttemptTime
       /\ circuit'.state # CB_STATE.OPEN =>
            \/ /\ now >= openedAt + circuit.timeout
               /\ circuit' = CanExecute(circuit, now)
            \/ \E s \in CircuitStates \ {CB_STATE.OPEN} :
                 circuit' = ForceState(circuit, s, now)
            \/ circuit' = Reset(circuit)]_vars

\* the breaker is OPEN and a success was recorded after it opened
C36_Witness ==
  /\ circuit.state = CB_STATE.OPEN
  /\ openedAt # NoTime
  /\ Len(callLog) > 0
  /\ callLog[Len(callLog)].success
  /\ callLog[Len(callLog)].timestamp > openedAt
  /\ circuit.consecutiveSuccesses >= circuit.successThreshold

JobsWithStatus(q, status) == {i \in 1..Len(q) : q[i].status = status}

\* C38: after any sequence of enqueue, retryJob, cleanup and send outcomes the
\* processing counter equals the number of jobs whose status is 'processing',
\* it never exceeds the concurrency, and no job is awaited by two
\* _processNext invocations at once.
C38_ProcessingCounterExact ==
  /\ pdf.processing = Cardinality(JobsWithStatus(pdf.queue, "processing"))
  /\ pdf.processing <= PdfConcurrency
  /\ \A id \in JobIds :
       /\ pdf.sending[id] <= 1
       /\ pdf.sending[id] = 1 <=>
            \E i \in JobsWithStatus(pdf.queue, "processing") : pdf.queue[i].id = id

\* every slot is taken and a pending job waits behind it
C38_Witness ==
  /\ pdf.processing = PdfConcurrency
  /\ JobsWithStatus(pdf.queue, "pending") # {}
  /\ lastCall.op = "enqueue"

\* job id starts being sent in this step after at least one failed attempt
ResentNow(id) ==
  /\ PdfHas(pdf.queue, id)
  /\ pdf.queue[PdfIndex(pdf.queue, id)].attempts >= 1
  /\ pdf'.sending[id] > pdf.sending[id]

\* C39: after the k-th failed send attempt of a job (k < maxRetries) the job
\* is not sent again before retryDelay * k have elapsed since that failure,
\* that is, before the instant written to job.nextRetry.
C39_RetryWaitsForDelay ==
  [][\A id \in JobIds :
       ResentNow(id) => now >= pdf.queue[PdfIndex(pdf.queue, id)].nextRetry]_vars

JobHasStatus(id, statuses) ==
  \E i \in 1..Len(pdf.queue) :
    pdf.queue[i].id = id /\ pdf.queue[i].status \in statuses

\* the step gives job id the status 'failed'
BecomesFailed(id) ==
  /\ ~JobHasStatus(id, {"failed"})
  /\ JobHasStatus(id, {"failed"})'

\* C40: provided every send attempt terminates, every job that is pending or
\* processing eventually is 'completed' or 'failed', and a job becomes
\* 'failed' only in a step that leaves it with exactly maxRetries failed
\* attempts since it was enqueued or last restarted by retryJob.
C40_EveryJobSettles ==
  /\ \A id \in JobIds :
       JobHasStatus(id, {"pending", "processing"})
         ~> JobHasStatus(id, {"completed", "failed"})
  /\ [][\A id \in JobIds :
          BecomesFailed(id) => pdf'.failedAttempts[id] = PdfMaxRetries]_vars

\* a job restarted by retryJob has failed for good a second time
C40_Witness ==
  /\ pdf.retried >= 1
  /\ \E id \in JobIds :
       /\ JobHasStatus(id, {"failed"})
       /\ pdf.failedAttempts[id] = PdfMaxRetries

====
